---- MODULE Spec2Model ----
(***************************************************************************)
(* The hybrid retrieval-and-answer pipeline of nasa-knowledge-search:      *)
(* RAGSystem.ask_question (src/rag_system.py), the NASAResearchAgents      *)
(* pipeline it drives (src/agents.py) and the chat store it writes to      *)
(* (src/database.py).                                                      *)
(*                                                                         *)
(* Similarities, relevance scores and confidences are floats in the code;  *)
(* here they are integers in hundredths (0.85 is 85).  One behaviour of    *)
(* Spec is one ask_question invocation, cut into one step per external     *)
(* call.  ConfigSpec runs hybrid_search under a configuration              *)
(* (src/config.py) that changes; MergeSpec runs _combine_search_results    *)
(* on lists of its own; RepeatSpec calls hybrid_search twice; ChatSpec     *)
(* steps through the chat store's transactions; ConcurrentSpec runs two    *)
(* invocations on one session; KgSpec runs search_knowledge_graph against  *)
(* a graph store (src/neo4j_manager.py); IngestSpec runs the upload paths  *)
(* (pages/upload.py, src/document_processor.py).                           *)
(***************************************************************************)
EXTENDS Integers, Sequences, FiniteSets, TLC

(***************************************************************************)
(* Bounds of the model.                                                    *)
(***************************************************************************)
\* longest document store listing whose similarities vary freely
MaxSmallDocs == 1
\* longest chunk store listing
MaxSmallChunks == 2
\* largest document store of equally similar documents
MaxLargeStore == 11
\* most relationships the graph search returns
MaxKg == 2
\* most follow-up questions the completion provider sends back
MaxProviderQuestions == 6
\* longest list of each kind handed to _combine_search_results on its own
MaxMerge == 2

(***************************************************************************)
(* Program constants (hundredths where the code has a float).              *)
(***************************************************************************)
DefaultThreshold == 70
DocLimit == 10
ChunkLimit == 20
MaxSources == 10
MaxFollowUps == 5
GoodSimilarity == 80
BonusPerSource == 10
MaxBonus == 30
FullConfidence == 100
KgScore == 50

\* similarities the store reports for documents: below the default
\* threshold, on the "good source" boundary, and above it
SimValues == {60, 80, 85}
\* similarities the store reports for chunks
ChunkSimValues == {60, 85}
\* the similarity of the documents of a large store
LargeStoreSims == {85}
\* similarities of the lists handed to _combine_search_results on its own:
\* below, at and above the score of a knowledge-graph item
MergeSims == {40, KgScore, 85}
\* thresholds the retriever is run with (config.py allows 0.1 .. 1.0)
Thresholds == {DefaultThreshold, 85}
Queries == {"", "mouse"}
NoSession == "None"
Sessions == {NoSession, "", "s1"}
\* texts the completion provider answers a pipeline stage with
Texts(stage) ==
    CASE stage = "search" -> {"docs 1 and 2 are relevant"}
      [] stage = "analyze" -> {"findings"}
      [] stage = "synthesize" -> {"draft A", "draft B"}
      [] OTHER -> {"verified", "unsupported"}
\* query_type values the completion provider puts in its JSON
ProviderTypes == {"factual", "comparative", "bogus"}

(***************************************************************************)
(* Sequence helpers.                                                       *)
(***************************************************************************)
Take(s, n) == SubSeq(s, 1, IF Len(s) < n THEN Len(s) ELSE n)

Min(a, b) == IF a < b THEN a ELSE b

RECURSIVE SumSeq(_)
SumSeq(s) == IF s = <<>> THEN 0 ELSE Head(s) + SumSeq(Tail(s))

Range(s) == {s[i] : i \in 1..Len(s)}

\* lists of similarities in the order the store returns them (ORDER BY
\* distance ascending = similarity descending)
SortedLists(values, maxLen) ==
    UNION {{s \in [1..k -> values] : \A i \in 1..(k - 1) : s[i] >= s[i + 1]}
           : k \in 0..maxLen}

UniformLists ==
    {[i \in 1..n |-> s] : n \in DocLimit..MaxLargeStore, s \in LargeStoreSims}

AsRows(sims) == [i \in 1..Len(sims) |-> [id |-> i, similarity |-> sims[i]]]

DocStores == {AsRows(s) : s \in SortedLists(SimValues, MaxSmallDocs) \cup UniformLists}
ChunkStores == {AsRows(s) : s \in SortedLists(ChunkSimValues, MaxSmallChunks)}

(***************************************************************************)
(* database.py                                                             *)
(***************************************************************************)
\* SELECT ... ORDER BY embedding <=> q LIMIT limit
search_similar_documents(store, limit) == Take(store, limit)

search_similar_chunks(store, limit) == Take(store, limit)

(***************************************************************************)
(* rag_system.py: the pure parts                                           *)
(***************************************************************************)
\* the list comprehension of search_documents
\* faulty variant: the threshold is not applied
filter_documents_unfiltered(similar_docs, t) == similar_docs

filter_documents(similar_docs, t) ==
    SelectSeq(similar_docs, LAMBDA doc : doc.similarity >= t)

filter_chunks(similar_chunks, t) ==
    SelectSeq(similar_chunks, LAMBDA chunk : chunk.similarity >= t)

\* faulty variant: x goes before the items of its own score
RECURSIVE InsertBeforeEquals(_, _)
InsertBeforeEquals(sorted, x) ==
    IF sorted = <<>> THEN <<x>>
    ELSE IF Head(sorted).relevance_score > x.relevance_score
         THEN <<Head(sorted)>> \o InsertBeforeEquals(Tail(sorted), x)
         ELSE <<x>> \o sorted

\* stable insertion of x into a list sorted by relevance_score descending:
\* x goes after every item whose score is >= its own
RECURSIVE InsertStable(_, _)
InsertStable(sorted, x) ==
    IF sorted = <<>> THEN <<x>>
    ELSE IF Head(sorted).relevance_score >= x.relevance_score
         THEN <<Head(sorted)>> \o InsertStable(Tail(sorted), x)
         ELSE <<x>> \o sorted

\* list.sort(key=relevance_score, reverse=True): stable
RECURSIVE SortByRelevance(_)
SortByRelevance(s) ==
    IF s = <<>> THEN <<>>
    ELSE InsertStable(SortByRelevance(SubSeq(s, 1, Len(s) - 1)), s[Len(s)])

\* the display titles: the document's title (or filename), the chunk's
\* filename and index, the name of the relationship's source entity
document_title(doc) == [text |-> "title", of |-> doc.id]

chunk_title(chunk) == [text |-> "filename (chunk chunk_index)", of |-> chunk.id]

kg_title(kg_item) == [text |-> "KG: name", of |-> kg_item.id]

combine_search_results(docs, chunks, kg) ==
    SortByRelevance(
        [i \in 1..Len(docs) |->
            [type |-> "document", id |-> docs[i].id,
             relevance_score |-> docs[i].similarity,
             title |-> document_title(docs[i])]]
        \o [i \in 1..Len(chunks) |->
            [type |-> "chunk", id |-> chunks[i].id,
             relevance_score |-> chunks[i].similarity,
             title |-> chunk_title(chunks[i])]]
        \o [i \in 1..Len(kg) |->
            [type |-> "knowledge_graph", id |-> kg[i].id,
             relevance_score |-> KgScore,
             title |-> kg_title(kg[i])]])

\* faulty variant: the [:10] is missing
extract_sources_untruncated(docs, chunks) ==
    [i \in 1..Len(docs) |->
        [type |-> "document", id |-> docs[i].id, similarity |-> docs[i].similarity]]
    \o [i \in 1..Len(chunks) |->
        [type |-> "chunk", id |-> chunks[i].id, similarity |-> chunks[i].similarity]]

extract_sources(docs, chunks) ==
    Take([i \in 1..Len(docs) |->
            [type |-> "document", id |-> docs[i].id,
             similarity |-> docs[i].similarity]]
         \o [i \in 1..Len(chunks) |->
            [type |-> "chunk", id |-> chunks[i].id,
             similarity |-> chunks[i].similarity]],
         MaxSources)

\* round(num/den, 2) in hundredths.  A float on an exact half goes to either
\* neighbour, depending on its binary representation: both are allowed.
Round2(num, den) ==
    LET q == num \div den
        r == num % den
    IN  IF 2 * r < den THEN {q}
        ELSE IF 2 * r > den THEN {q + 1}
        ELSE {q, q + 1}

\* faulty variant: the sum is not clamped to 1.0
calculate_confidence_unclamped(docs, chunks) ==
    IF docs = <<>> /\ chunks = <<>> THEN {0}
    ELSE LET all_similarities ==
                 [i \in 1..Len(docs) |-> docs[i].similarity]
                 \o [i \in 1..Len(chunks) |-> chunks[i].similarity]
             n == Len(all_similarities)
             num_good_sources ==
                 Cardinality({i \in 1..n : all_similarities[i] > GoodSimilarity})
             source_bonus == Min(num_good_sources * BonusPerSource, MaxBonus)
         IN  Round2(SumSeq(all_similarities) + source_bonus * n, n)

\* faulty variant: a source of similarity exactly 0.8 counts as good
calculate_confidence_geq(docs, chunks) ==
    IF docs = <<>> /\ chunks = <<>> THEN {0}
    ELSE LET all_similarities ==
                 [i \in 1..Len(docs) |-> docs[i].similarity]
                 \o [i \in 1..Len(chunks) |-> chunks[i].similarity]
             n == Len(all_similarities)
             num_good_sources ==
                 Cardinality({i \in 1..n : all_similarities[i] >= GoodSimilarity})
             source_bonus == Min(num_good_sources * BonusPerSource, MaxBonus)
             num == SumSeq(all_similarities) + source_bonus * n
         IN  IF num >= FullConfidence * n THEN {FullConfidence}
             ELSE Round2(num, n)

\* the set of values _calculate_confidence can return for this evidence
calculate_confidence(docs, chunks) ==
    IF docs = <<>> /\ chunks = <<>> THEN {0}
    ELSE LET all_similarities ==
                 [i \in 1..Len(docs) |-> docs[i].similarity]
                 \o [i \in 1..Len(chunks) |-> chunks[i].similarity]
             n == Len(all_similarities)
             num_good_sources ==
                 Cardinality({i \in 1..n : all_similarities[i] > GoodSimilarity})
             source_bonus == Min(num_good_sources * BonusPerSource, MaxBonus)
             \* avg_similarity + source_bonus, as a fraction over n
             num == SumSeq(all_similarities) + source_bonus * n
         IN  IF num >= FullConfidence * n THEN {FullConfidence}
             ELSE Round2(num, n)

(***************************************************************************)
(* agents.py: the pure parts                                               *)
(***************************************************************************)
\* the edges added in _create_agent_graph
\* faulty variant: verify is wired before synthesize
Edge_verify_first(from) ==
    CASE from = "START" -> "search"
      [] from = "search" -> "analyze"
      [] from = "analyze" -> "verify"
      [] from = "verify" -> "synthesize"
      [] OTHER -> "END"

Edge(from) ==
    CASE from = "START" -> "search"
      [] from = "search" -> "analyze"
      [] from = "analyze" -> "synthesize"
      [] from = "synthesize" -> "verify"
      [] OTHER -> "END"

\* what the completion provider can answer a classification request with:
\* an exception, text without a JSON object, an object that does not parse,
\* an object without query_type, or an object with one
ClassifyResponses == {"raise", "nojson", "badjson", "nokey"} \cup ProviderTypes

\* the query_type classify_query ends with for a provider response
classified_type(r) == IF r \in ProviderTypes THEN r ELSE "factual"

\* Python's None
None == "None"

\* the dataclass SearchQuery
SearchQuery(query_text, query_type, context, constraints) ==
    [query |-> query_text, query_type |-> query_type, context |-> context,
     constraints |-> constraints]

\* the key_concepts and the constraints of the provider's JSON object: an
\* object that names a query_type names these too, the object of "nokey" is {}
json_key_concepts(r) == IF r \in ProviderTypes THEN <<"mouse">> ELSE <<>>

json_constraints(r) == IF r \in ProviderTypes THEN <<"scope">> ELSE <<>>

\* faulty variant: an object that does not parse is classified 'unknown'
classify_query_unknown_on_bad_json(query_text, r) ==
    IF r \in {"no_llm", "raise", "nojson"}
    THEN SearchQuery(query_text, "factual", None, None)
    ELSE IF r = "badjson"
    THEN SearchQuery(query_text, "unknown", None, None)
    ELSE SearchQuery(query_text, classified_type(r),
                     [key_concepts |-> json_key_concepts(r)], json_constraints(r))

\* what classify_query returns: r is "no_llm" when there is no provider,
\* else the provider's response
classify_query(query_text, r) ==
    IF r \in {"no_llm", "raise", "nojson", "badjson"}
    THEN SearchQuery(query_text, "factual", None, None)
    ELSE SearchQuery(query_text, classified_type(r),
                     [key_concepts |-> json_key_concepts(r)], json_constraints(r))

(***************************************************************************)
(* State                                                                   *)
(***************************************************************************)
VARIABLES
    threshold,        \* RAGSystem.similarity_threshold
    llm,              \* NASAResearchAgents.llm is set (the graph was compiled)
    driver,           \* Neo4jManager.driver is set
    storeDocs,        \* documents with an embedding, ranked for the question
    storeChunks,      \* chunks with an embedding, ranked for the question
    pc,               \* where the ask_question invocation stands
    query,            \* ask_question's query
    session_id,       \* ask_question's session_id
    relevant_docs,    \* hybrid_search: documents
    relevant_chunks,  \* hybrid_search: chunks
    kg_context,       \* hybrid_search: knowledge_graph
    combined_results, \* hybrid_search: combined_results
    search_query,     \* generate_answer: the SearchQuery's query_type
    node,             \* the node of the agent graph to run next
    messages,         \* AgentState.messages (contents)
    analysis,         \* AgentState.analysis: <<>> is {}, <<f>> is {"findings": f}
    response,         \* AgentState.response
    agent_result,     \* generate_answer: <<>> or <<the result of execute_search>>
    answer_data,      \* ask_question: <<>> or <<the result of generate_answer>>
    config_threshold, \* ConfigManager.app.similarity_threshold
    chat_sessions,    \* the ids of the chat_sessions rows
    chat,             \* chat_messages rows, in insertion order
    calls,            \* the completion requests made so far: [op, ok]
    stage_outs,       \* what the provider answered the stages of this run with
    synthesized,      \* the completion the synthesize stage of this run got
    search_log,       \* how the sub-searches of the hybrid_search call went
    classified,       \* <<>> or <<the provider's response and the SearchQuery
                      \* classify_query made of it>>, until execute_search starts
    result,           \* <<>> or <<the mapping ask_question returned>>
    raised,           \* an exception left ask_question
    last_updated,     \* chat_sessions.last_updated, by session id
    now,              \* the store's clock (CURRENT_TIMESTAMP)
    tx,               \* <<>> or <<the open transaction of add_chat_message>>
    documents,        \* the documents rows, in insertion order
    document_chunks,  \* the document_chunks rows, in insertion order
    ingest,           \* <<>> or <<the locals of the upload being processed>>
    first_search,     \* <<>> or <<what an earlier hybrid_search call returned>>
    invocations,      \* the ask_question invocations running side by side
    graph_store,      \* the graph store's nodes and relationships
    graph_search      \* <<>> or <<the locals of search_knowledge_graph>>

\* the chat store's transaction, stepped through only by ChatSpec
chatVars == <<last_updated, now, tx>>
\* what the ask_question invocation leaves alone
\* the document store and an upload, stepped through only by IngestSpec
ingestVars == <<documents, document_chunks, ingest>>
\* the graph store and a search of it, stepped through only by KgSpec
kgVars == <<graph_store, graph_search>>
sideVars == <<chatVars, ingestVars, first_search, invocations, kgVars>>

vars == <<threshold, llm, driver, storeDocs, storeChunks, config_threshold,
          chat_sessions, pc, query, session_id,
          relevant_docs, relevant_chunks, kg_context, combined_results,
          search_query, node, messages, analysis, response, agent_result,
          answer_data, chat, calls, stage_outs, synthesized, search_log,
          classified, result, raised, sideVars>>

envVars == <<llm, driver, storeDocs, storeChunks, config_threshold, chat_sessions,
             sideVars>>
argVars == <<query, session_id>>
ghostVars == <<synthesized, search_log, classified>>
searchVars == <<relevant_docs, relevant_chunks, kg_context, combined_results>>
graphVars == <<node, messages, analysis, response, stage_outs>>
outVars == <<result, raised>>

\* the ask_question invocation's variables but pc and the chat store's
askVars == <<threshold, llm, driver, storeDocs, storeChunks, config_threshold,
             argVars, ghostVars, searchVars, search_query, graphVars,
             agent_result, answer_data, calls, outVars>>

KgLists == {[i \in 1..n |-> [id |-> i]] : n \in 0..MaxKg}

\* no add_chat_message transaction is open; session s1 was created at time 0
ChatIdle ==
    /\ last_updated = [s \in {"s1"} |-> 0]
    /\ now = 1
    /\ tx = <<>>

\* nothing was uploaded
IngestIdle ==
    /\ documents = <<>>
    /\ document_chunks = <<>>
    /\ ingest = <<>>

\* an empty graph store
KgIdle ==
    /\ graph_store = [nodes |-> <<>>, relationships |-> <<>>]
    /\ graph_search = <<>>

SideIdle ==
    /\ ChatIdle
    /\ IngestIdle
    /\ first_search = <<>>
    /\ invocations = <<>>
    /\ KgIdle

\* SIMILARITY_THRESHOLD is not set: the configuration holds its default
Init ==
    /\ threshold = DefaultThreshold
    /\ llm \in BOOLEAN
    /\ driver \in BOOLEAN
    /\ storeDocs \in DocStores
    /\ storeChunks \in ChunkStores
    /\ config_threshold = DefaultThreshold
    /\ chat_sessions = {"s1"}
    /\ pc = "idle"
    /\ query = ""
    /\ session_id = NoSession
    /\ relevant_docs = <<>>
    /\ relevant_chunks = <<>>
    /\ kg_context = <<>>
    /\ combined_results = <<>>
    /\ search_query = ""
    /\ node = "START"
    /\ messages = <<>>
    /\ analysis = <<>>
    /\ response = ""
    /\ agent_result = <<>>
    /\ answer_data = <<>>
    /\ chat = <<>>
    /\ calls = <<>>
    /\ stage_outs = <<>>
    /\ synthesized = ""
    /\ search_log = <<>>
    /\ classified = <<>>
    /\ result = <<>>
    /\ raised = FALSE
    /\ SideIdle

(***************************************************************************)
(* The host sets the retriever's threshold, then asks one question.        *)
(***************************************************************************)
SetThreshold ==
    /\ pc = "idle"
    /\ \E t \in Thresholds \ {threshold} : threshold' = t
    /\ UNCHANGED <<envVars, pc, argVars, ghostVars, searchVars, search_query, graphVars,
                   agent_result, answer_data, chat, calls, outVars>>

\* faulty variant: the user message is stored as soon as the question arrives
AskQuestion_stores_user_first ==
    /\ pc = "idle"
    /\ \E q \in Queries, s \in Sessions :
          /\ query' = q
          /\ session_id' = s
          /\ chat' = IF s \in {NoSession, ""} THEN chat
                     ELSE Append(chat, [message_type |-> "user",
                                        content |-> [kind |-> "query", detail |-> q],
                                        sources |-> <<>>])
    /\ pc' = "search_documents"
    /\ UNCHANGED <<threshold, envVars, ghostVars, searchVars, search_query, graphVars,
                   agent_result, answer_data, calls, outVars>>

AskQuestion ==
    /\ pc = "idle"
    /\ \E q \in Queries, s \in Sessions : query' = q /\ session_id' = s
    /\ pc' = "search_documents"
    /\ UNCHANGED <<threshold, envVars, ghostVars, searchVars, search_query, graphVars,
                   agent_result, answer_data, chat, calls, outVars>>

(***************************************************************************)
(* hybrid_search                                                           *)
(***************************************************************************)
\* how a vector sub-search can go: generate_embeddings returns None, the
\* store raises, or the store answers
SearchOutcomes == {"no_embedding", "store_error", "ok"}

\* faulty variant: a missing embedding does not stop the search
search_documents_without_embedding(outcome, store, t) ==
    IF outcome = "store_error" THEN <<>>
    ELSE filter_documents(search_similar_documents(store, DocLimit), t)

\* what search_documents(query, limit=10) returns
search_documents(outcome, store, t) ==
    IF outcome = "ok"
    THEN filter_documents(search_similar_documents(store, DocLimit), t)
    ELSE <<>>

\* what search_chunks(query, limit=20) returns
search_chunks(outcome, store, t) ==
    IF outcome = "ok"
    THEN filter_chunks(search_similar_chunks(store, ChunkLimit), t)
    ELSE <<>>

\* faulty variant: the retriever keeps its documents list between calls
SearchDocuments_extends_previous ==
    /\ pc = "search_documents"
    /\ \E outcome \in SearchOutcomes :
          /\ relevant_docs' =
                 relevant_docs \o search_documents(outcome, storeDocs, threshold)
          /\ search_log' = Append(search_log, [op |-> "documents", outcome |-> outcome])
    /\ pc' = "search_chunks"
    /\ UNCHANGED <<threshold, envVars, argVars, synthesized, classified, relevant_chunks, kg_context,
                   combined_results, search_query, graphVars, agent_result,
                   answer_data, chat, calls, outVars>>

SearchDocuments ==
    /\ pc = "search_documents"
    /\ \E outcome \in SearchOutcomes :
          /\ relevant_docs' = search_documents(outcome, storeDocs, threshold)
          /\ search_log' = Append(search_log, [op |-> "documents", outcome |-> outcome])
    /\ pc' = "search_chunks"
    /\ UNCHANGED <<threshold, envVars, argVars, synthesized, classified, relevant_chunks, kg_context,
                   combined_results, search_query, graphVars, agent_result,
                   answer_data, chat, calls, outVars>>

\* faulty variant: search_chunks lets the store's exception through and
\* hybrid_search's except clause answers with the all-empty result
SearchChunks_failure_empties_all ==
    /\ pc = "search_chunks"
    /\ \E outcome \in SearchOutcomes :
          /\ relevant_chunks' = search_chunks(outcome, storeChunks, threshold)
          /\ relevant_docs' = IF outcome = "store_error" THEN <<>> ELSE relevant_docs
          /\ search_log' = Append(search_log, [op |-> "chunks", outcome |-> outcome])
    /\ pc' = "search_knowledge_graph"
    /\ UNCHANGED <<threshold, envVars, argVars, synthesized, classified, kg_context,
                   combined_results, search_query, graphVars, agent_result,
                   answer_data, chat, calls, outVars>>

SearchChunks ==
    /\ pc = "search_chunks"
    /\ \E outcome \in SearchOutcomes :
          /\ relevant_chunks' = search_chunks(outcome, storeChunks, threshold)
          /\ search_log' = Append(search_log, [op |-> "chunks", outcome |-> outcome])
    /\ pc' = "search_knowledge_graph"
    /\ UNCHANGED <<threshold, envVars, argVars, synthesized, classified, relevant_docs, kg_context,
                   combined_results, search_query, graphVars, agent_result,
                   answer_data, chat, calls, outVars>>

\* search_knowledge_graph, then _combine_search_results and the return of
\* hybrid_search.  Without a driver no graph query is made; a graph error is
\* swallowed (by Neo4jManager, or by search_knowledge_graph's own except
\* clause) and reads as an empty result.
SearchKnowledgeGraph ==
    /\ pc = "search_knowledge_graph"
    /\ \E outcome \in (IF driver THEN {"graph_error", "ok"} ELSE {"no_driver"}) :
       \E kg \in (IF outcome = "ok" THEN KgLists ELSE {<<>>}) :
          /\ kg_context' = kg
          /\ combined_results' =
                 combine_search_results(relevant_docs, relevant_chunks, kg)
          /\ search_log' =
                 Append(search_log, [op |-> "knowledge_graph", outcome |-> outcome])
    /\ pc' = "classify_query"
    /\ UNCHANGED <<threshold, envVars, argVars, synthesized, classified, relevant_docs, relevant_chunks,
                   search_query, graphVars, agent_result, answer_data, chat,
                   calls, outVars>>

(***************************************************************************)
(* generate_answer: classify_query                                         *)
(***************************************************************************)
\* hybrid_search has returned and its log is closed
ClassifyQuery ==
    /\ pc = "classify_query"
    /\ IF ~llm
       THEN /\ search_query' = classify_query(query, "no_llm").query_type
            /\ classified' = <<[response |-> "no_llm",
                                query |-> classify_query(query, "no_llm")]>>
            /\ calls' = calls
       ELSE \E r \in ClassifyResponses :
               /\ search_query' = classify_query(query, r).query_type
               /\ classified' = <<[response |-> r, query |-> classify_query(query, r)]>>
               /\ calls' = Append(calls, [op |-> "classify", ok |-> r # "raise"])
    /\ pc' = "execute_search"
    /\ search_log' = <<>>
    /\ UNCHANGED <<threshold, envVars, argVars, synthesized, searchVars, graphVars,
                   agent_result, answer_data, chat, outVars>>

(***************************************************************************)
(* generate_answer: execute_search and the agent graph                     *)
(***************************************************************************)
\* the result execute_search's except clause returns
execute_search_error(e) == [status |-> "error", result |-> "", error |-> e]

\* the result execute_search returns after graph.invoke
execute_search_success(final_response) ==
    [status |-> "success", result |-> final_response, error |-> ""]

\* the start of execute_search: no graph, or the initial state
ExecuteSearch ==
    /\ pc = "execute_search"
    /\ IF ~llm
       THEN /\ agent_result' = <<execute_search_error("Agent graph not initialized")>>
            /\ pc' = "compose_error"
            /\ UNCHANGED graphVars
       ELSE /\ messages' = <<query>>
            /\ analysis' = <<>>
            /\ response' = ""
            /\ stage_outs' = <<>>
            /\ node' = Edge("START")
            /\ agent_result' = <<>>
            /\ pc' = "graph"
    /\ classified' = <<>>
    /\ UNCHANGED <<threshold, envVars, argVars, synthesized, search_log, searchVars,
                   search_query, answer_data, chat, calls, outVars>>

\* faulty variant: the failed node is run again
StageFails_retry(stage) ==
    /\ calls' = Append(calls, [op |-> stage, ok |-> FALSE])
    /\ UNCHANGED <<agent_result, pc, node, messages, analysis, response,
                   stage_outs>>

\* the exception of a node leaves graph.invoke and execute_search catches it
StageFails(stage) ==
    /\ calls' = Append(calls, [op |-> stage, ok |-> FALSE])
    /\ agent_result' = <<execute_search_error("provider error")>>
    /\ pc' = "compose_error"
    /\ node' = "START"
    /\ messages' = <<>>
    /\ analysis' = <<>>
    /\ response' = ""
    /\ stage_outs' = <<>>

\* the node returned: the graph follows its edge; after the last node
\* graph.invoke returns and execute_search builds its result
StageDone(stage, out, new_response) ==
    /\ calls' = Append(calls, [op |-> stage, ok |-> TRUE])
    /\ stage_outs' = Append(stage_outs, [op |-> stage, out |-> out])
    /\ node' = Edge(stage)
    /\ response' = new_response
    /\ IF Edge(stage) = "END"
       THEN /\ agent_result' = <<execute_search_success(new_response)>>
            /\ pc' = "follow_up"
       ELSE /\ agent_result' = agent_result
            /\ pc' = pc

search_agent ==
    /\ pc = "graph" /\ node = "search"
    /\ \/ /\ StageFails("search")
       \/ \E out \in Texts("search") :
             /\ messages' = Append(messages, out)
             /\ analysis' = analysis
             /\ StageDone("search", out, response)
    /\ UNCHANGED <<threshold, envVars, argVars, ghostVars, searchVars, search_query,
                   answer_data, chat, outVars>>

analysis_agent ==
    /\ pc = "graph" /\ node = "analyze"
    /\ \/ /\ StageFails("analyze")
       \/ \E out \in Texts("analyze") :
             /\ messages' = Append(messages, out)
             /\ analysis' = <<out>>
             /\ StageDone("analyze", out, response)
    /\ UNCHANGED <<threshold, envVars, argVars, ghostVars, searchVars, search_query,
                   answer_data, chat, outVars>>

\* state["response"] after synthesis_agent got `out` from the provider
synthesis_response(old, out) == out

\* state["analysis"]["findings"] is read before the provider is called: with
\* no findings the node fails on the lookup
synthesis_agent ==
    /\ pc = "graph" /\ node = "synthesize"
    /\ IF analysis = <<>>
       THEN /\ agent_result' = <<execute_search_error("'findings'")>>
            /\ pc' = "compose_error"
            /\ node' = "START"
            /\ messages' = <<>>
            /\ analysis' = <<>>
            /\ response' = ""
            /\ stage_outs' = <<>>
            /\ calls' = calls
            /\ synthesized' = synthesized
       ELSE \/ /\ StageFails("synthesize")
               /\ synthesized' = synthesized
            \/ \E out \in Texts("synthesize") :
                  /\ messages' = Append(messages, out)
                  /\ analysis' = analysis
                  /\ synthesized' = out
                  /\ StageDone("synthesize", out, synthesis_response(response, out))
    /\ UNCHANGED <<threshold, envVars, argVars, search_log, classified, searchVars,
                   search_query, answer_data, chat, outVars>>

\* faulty variant: the verify stage's output replaces the response
fact_checker_overwrites(old, out) == out

\* state["response"] after fact_checker got `out` from the provider
fact_checker_response(old, out) == old

fact_checker ==
    /\ pc = "graph" /\ node = "verify"
    /\ \/ /\ StageFails("verify")
       \/ \E out \in Texts("verify") :
             /\ messages' = Append(messages, out)
             /\ analysis' = analysis
             /\ StageDone("verify", out, fact_checker_response(response, out))
    /\ UNCHANGED <<threshold, envVars, argVars, ghostVars, searchVars, search_query,
                   answer_data, chat, outVars>>

(***************************************************************************)
(* generate_answer: follow-up questions and the composed answer            *)
(***************************************************************************)
\* what the completion provider can answer a follow-up request with: an
\* exception, text without a JSON array, an array that does not parse, or an
\* array of questions
QuestionLists == {[i \in 1..k |-> i] : k \in {0, MaxProviderQuestions}}

FollowUpResponses ==
    {[kind |-> "raise", questions |-> <<>>], [kind |-> "nojson", questions |-> <<>>],
     [kind |-> "badjson", questions |-> <<>>]}
    \cup {[kind |-> "json", questions |-> qs] : qs \in QuestionLists}

\* faulty variant: the [:5] is missing
follow_up_questions_untruncated(r) ==
    IF r.kind = "json" THEN r.questions ELSE <<>>

\* what generate_follow_up_questions returns for a provider response
follow_up_questions(r) ==
    IF r.kind = "json" THEN Take(r.questions, MaxFollowUps) ELSE <<>>

\* the success branch of generate_answer
answer_success(agent, docs, chunks, follow_ups, query_type, confidence) ==
    [answer |-> [kind |-> "synthesis", detail |-> agent.result],
     sources |-> extract_sources(docs, chunks),
     follow_up_questions |-> follow_ups,
     query_type |-> query_type,
     confidence |-> confidence]

\* faulty variant: the error branch cites sources and scores them
answer_pipeline_error_with_sources(agent, docs, chunks, query_type) ==
    [answer |-> [kind |-> "pipeline_error", detail |-> agent.error],
     sources |-> extract_sources(docs, chunks),
     follow_up_questions |-> <<>>,
     query_type |-> query_type,
     confidence |-> IF docs = <<>> /\ chunks = <<>> THEN 0 ELSE FullConfidence]

\* faulty variant: the error branch reports query_type "error"
answer_pipeline_error_as_error(agent, docs, chunks, query_type) ==
    [answer |-> [kind |-> "pipeline_error", detail |-> agent.error],
     sources |-> <<>>,
     follow_up_questions |-> <<>>,
     query_type |-> "error",
     confidence |-> 0]

\* the else branch of generate_answer: the pipeline reported an error
answer_pipeline_error(agent, docs, chunks, query_type) ==
    [answer |-> [kind |-> "pipeline_error", detail |-> agent.error],
     sources |-> <<>>,
     follow_up_questions |-> <<>>,
     query_type |-> query_type,
     confidence |-> 0]

GenerateAnswerSuccess ==
    /\ pc = "follow_up"
    /\ agent_result[1].status = "success"
    /\ \E r \in (IF llm THEN FollowUpResponses
                 ELSE {[kind |-> "nollm", questions |-> <<>>]}),
          confidence \in calculate_confidence(relevant_docs, relevant_chunks) :
          /\ calls' = IF llm
                      THEN Append(calls, [op |-> "follow_up", ok |-> r.kind # "raise"])
                      ELSE calls
          /\ answer_data' =
                 <<answer_success(agent_result[1], relevant_docs, relevant_chunks,
                                  follow_up_questions(r), search_query, confidence)>>
    /\ agent_result' = <<>>
    /\ node' = "START"
    /\ messages' = <<>>
    /\ analysis' = <<>>
    /\ response' = ""
    /\ stage_outs' = <<>>
    /\ pc' = "store_chat"
    /\ UNCHANGED <<threshold, envVars, argVars, ghostVars, searchVars, search_query, chat,
                   outVars>>

GenerateAnswerError ==
    /\ pc = "compose_error"
    /\ agent_result[1].status # "success"
    /\ answer_data' =
           <<answer_pipeline_error(agent_result[1], relevant_docs, relevant_chunks,
                                   search_query)>>
    /\ agent_result' = <<>>
    /\ pc' = "store_chat"
    /\ UNCHANGED <<threshold, envVars, argVars, ghostVars, searchVars, search_query,
                   graphVars, chat, calls, outVars>>

(***************************************************************************)
(* ask_question: the chat store and the return                             *)
(***************************************************************************)
\* the mapping ask_question returns at the end of its try block
ask_question_return(q, data, docs, chunks, kg, combined) ==
    [query |-> q,
     answer |-> data.answer,
     sources |-> data.sources,
     follow_up_questions |-> data.follow_up_questions,
     confidence |-> data.confidence,
     query_type |-> data.query_type,
     num_sources |-> Len(data.sources),
     search_results |-> <<[documents |-> docs, chunks |-> chunks,
                           knowledge_graph |-> kg, combined_results |-> combined]>>]

\* faulty variant: no except clause, the exception leaves ask_question
ask_question_reraise(q, e) == [raised |-> TRUE, value |-> <<>>]

\* faulty variant: the except clause hands out the composed answer
ask_question_except_keeps_answer(q, e) ==
    [raised |-> FALSE,
     value |-> <<ask_question_return(q, answer_data[1], relevant_docs,
                                     relevant_chunks, kg_context, combined_results)>>]

\* ask_question's except clause: what becomes of an exception raised inside
\* the try block
ask_question_except(q, e) ==
    [raised |-> FALSE,
     value |-> <<[query |-> q,
                  answer |-> [kind |-> "orchestrator_error", detail |-> e],
                  sources |-> <<>>,
                  follow_up_questions |-> <<>>,
                  confidence |-> 0,
                  query_type |-> "error",
                  num_sources |-> 0,
                  search_results |-> <<>>]>>]

\* the row add_chat_message inserts
chat_row(message_type, content, sources) ==
    [message_type |-> message_type, content |-> content, sources |-> sources]

TheAnswer ==
    ask_question_return(query, answer_data[1], relevant_docs, relevant_chunks,
                        kg_context, combined_results)

\* ask_question ends: `out` goes to the caller and the locals are gone
Return(out) ==
    /\ result' = out.value
    /\ raised' = out.raised
    /\ pc' = "returned"
    /\ relevant_docs' = <<>>
    /\ relevant_chunks' = <<>>
    /\ kg_context' = <<>>
    /\ combined_results' = <<>>
    /\ search_query' = ""
    /\ answer_data' = <<>>

\* faulty variant: `if session_id is not None:`, so the empty session_id
\* gets its two messages stored
ReturnWithoutSession_stores_empty_session ==
    /\ pc = "store_chat"
    /\ session_id \in {NoSession, ""}
    /\ chat' = IF session_id = NoSession THEN chat
               ELSE chat \o <<chat_row("user", [kind |-> "query", detail |-> query],
                                       <<>>),
                              chat_row("assistant", answer_data[1].answer,
                                       answer_data[1].sources)>>
    /\ Return([raised |-> FALSE, value |-> <<TheAnswer>>])
    /\ UNCHANGED <<threshold, envVars, argVars, ghostVars, graphVars, agent_result,
                   calls>>

\* `if session_id:` is false for None and for ""
ReturnWithoutSession ==
    /\ pc = "store_chat"
    /\ session_id \in {NoSession, ""}
    /\ Return([raised |-> FALSE, value |-> <<TheAnswer>>])
    /\ UNCHANGED <<threshold, envVars, argVars, ghostVars, graphVars, agent_result, chat,
                   calls>>

\* faulty variant: a failed user append is passed over
AddUserMessage_passes_over_failure ==
    /\ pc = "store_chat"
    /\ session_id \notin {NoSession, ""}
    /\ \/ chat' = Append(chat, chat_row("user",
                              [kind |-> "query", detail |-> query], <<>>))
       \/ chat' = chat
    /\ pc' = "store_assistant"
    /\ UNCHANGED <<searchVars, search_query, answer_data, outVars>>
    /\ UNCHANGED <<threshold, envVars, argVars, ghostVars, graphVars, agent_result, calls>>

\* add_chat_message(session_id, 'user', query): committed, or it raises and
\* nothing is stored
AddUserMessage ==
    /\ pc = "store_chat"
    /\ session_id \notin {NoSession, ""}
    /\ \/ /\ chat' = Append(chat, chat_row("user",
                                [kind |-> "query", detail |-> query], <<>>))
          /\ pc' = "store_assistant"
          /\ UNCHANGED <<searchVars, search_query, answer_data, outVars>>
       \/ /\ chat' = chat
          /\ Return(ask_question_except(query, "store error"))
    /\ UNCHANGED <<threshold, envVars, argVars, ghostVars, graphVars, agent_result, calls>>

\* add_chat_message(session_id, 'assistant', answer, sources), then the return
AddAssistantMessage ==
    /\ pc = "store_assistant"
    /\ \/ /\ chat' = Append(chat, chat_row("assistant", answer_data[1].answer,
                                           answer_data[1].sources))
          /\ Return([raised |-> FALSE, value |-> <<TheAnswer>>])
       \/ /\ chat' = chat
          /\ Return(ask_question_except(query, "store error"))
    /\ UNCHANGED <<threshold, envVars, argVars, ghostVars, graphVars, agent_result, calls>>

Next ==
    \/ SetThreshold
    \/ AskQuestion
    \/ SearchDocuments
    \/ SearchChunks
    \/ SearchKnowledgeGraph
    \/ ClassifyQuery
    \/ ExecuteSearch
    \/ search_agent
    \/ analysis_agent
    \/ synthesis_agent
    \/ fact_checker
    \/ GenerateAnswerSuccess
    \/ GenerateAnswerError
    \/ ReturnWithoutSession
    \/ AddUserMessage
    \/ AddAssistantMessage

Spec == Init /\ [][Next]_vars

(***************************************************************************)
(* The configuration and the retriever: SIMILARITY_THRESHOLD is set to any *)
(* allowed value, the host updates the configuration and runs              *)
(* hybrid_search.                                                          *)
(***************************************************************************)
\* ConfigManager._load_from_env and RAGSystem.__init__
ConfigInit ==
    /\ threshold = DefaultThreshold
    /\ llm = FALSE
    /\ driver \in BOOLEAN
    /\ storeDocs \in DocStores
    /\ storeChunks \in ChunkStores
    /\ config_threshold \in Thresholds
    /\ chat_sessions = {"s1"}
    /\ pc = "idle"
    /\ query = ""
    /\ session_id = NoSession
    /\ relevant_docs = <<>>
    /\ relevant_chunks = <<>>
    /\ kg_context = <<>>
    /\ combined_results = <<>>
    /\ search_query = ""
    /\ node = "START"
    /\ messages = <<>>
    /\ analysis = <<>>
    /\ response = ""
    /\ agent_result = <<>>
    /\ answer_data = <<>>
    /\ chat = <<>>
    /\ calls = <<>>
    /\ stage_outs = <<>>
    /\ synthesized = ""
    /\ search_log = <<>>
    /\ classified = <<>>
    /\ result = <<>>
    /\ raised = FALSE
    /\ SideIdle

\* ConfigManager.update_from_dict({'app': {'similarity_threshold': t}})
update_from_dict ==
    /\ pc = "idle"
    /\ \E t \in Thresholds \ {config_threshold} : config_threshold' = t
    /\ UNCHANGED <<threshold, llm, driver, storeDocs, storeChunks, chat_sessions,
                   sideVars, pc, argVars, ghostVars, searchVars, search_query, graphVars,
                   agent_result, answer_data, chat, calls, outVars>>

ConfigNext ==
    \/ update_from_dict
    \/ AskQuestion
    \/ SearchDocuments
    \/ SearchChunks
    \/ SearchKnowledgeGraph

ConfigSpec == ConfigInit /\ [][ConfigNext]_vars

(***************************************************************************)
(* _combine_search_results on its own: the lists are drawn, then merged.   *)
(***************************************************************************)
MergeInit ==
    /\ threshold = DefaultThreshold
    /\ llm = FALSE
    /\ driver = FALSE
    /\ storeDocs = <<>>
    /\ storeChunks = <<>>
    /\ config_threshold = DefaultThreshold
    /\ chat_sessions = {"s1"}
    /\ pc = "combine"
    /\ query = ""
    /\ session_id = NoSession
    /\ relevant_docs \in {AsRows(s) : s \in SortedLists(MergeSims, MaxMerge)}
    /\ relevant_chunks \in {AsRows(s) : s \in SortedLists(MergeSims, MaxMerge)}
    /\ kg_context \in {[i \in 1..n |-> [id |-> i]] : n \in 0..MaxMerge}
    /\ combined_results = <<>>
    /\ search_query = ""
    /\ node = "START"
    /\ messages = <<>>
    /\ analysis = <<>>
    /\ response = ""
    /\ agent_result = <<>>
    /\ answer_data = <<>>
    /\ chat = <<>>
    /\ calls = <<>>
    /\ stage_outs = <<>>
    /\ synthesized = ""
    /\ search_log = <<>>
    /\ classified = <<>>
    /\ result = <<>>
    /\ raised = FALSE
    /\ SideIdle

CombineSearchResults ==
    /\ pc = "combine"
    /\ combined_results' =
           combine_search_results(relevant_docs, relevant_chunks, kg_context)
    /\ pc' = "combined"
    /\ UNCHANGED <<threshold, envVars, argVars, ghostVars, relevant_docs,
                   relevant_chunks, kg_context, search_query, graphVars,
                   agent_result, answer_data, chat, calls, outVars>>

MergeSpec == MergeInit /\ [][CombineSearchResults]_vars

(***************************************************************************)
(* Properties                                                              *)
(***************************************************************************)
AnswerKeys ==
    {"query", "answer", "sources", "follow_up_questions", "confidence",
     "query_type", "num_sources", "search_results"}

Returned == pc = "returned" /\ result # <<>>

\* the Answer ask_question returned
Answer == result[1]

\* the Answer was composed from a pipeline run that reported success
SuccessAnswer == Returned /\ Answer.answer.kind = "synthesis"

\* the Answer was composed from a pipeline run that reported an error
PipelineErrorAnswer == Returned /\ Answer.answer.kind = "pipeline_error"

\* the Answer was built by ask_question's except clause
OrchestratorErrorAnswer == Returned /\ Answer.answer.kind = "orchestrator_error"

\* the search results the Answer echoes
Echo == Answer.search_results[1]

Similarities(docs, chunks) ==
    [i \in 1..Len(docs) |-> docs[i].similarity]
    \o [i \in 1..Len(chunks) |-> chunks[i].similarity]

Stages == {"search", "analyze", "synthesize", "verify"}

\* the guard of some step of the invocation holds
CanStep ==
    \/ pc \in {"idle", "search_documents", "search_chunks",
               "search_knowledge_graph", "classify_query", "execute_search"}
    \/ pc = "graph" /\ node \in Stages
    \/ pc = "follow_up" /\ agent_result # <<>> /\ agent_result[1].status = "success"
    \/ pc = "compose_error" /\ agent_result # <<>>
          /\ agent_result[1].status # "success"
    \/ pc \in {"store_chat", "store_assistant"} /\ answer_data # <<>>

\* C1: ask_question never raises to its caller: whatever the query, the
\* session_id and the failing external calls, no exception leaves it, every
\* invocation that has not returned can go on, and what it returns is a
\* mapping with the keys answer, sources, follow_up_questions, confidence,
\* query_type, num_sources and search_results.
C1_NeverRaises ==
    /\ ~raised
    /\ pc = "returned" => Len(result) = 1 /\ DOMAIN result[1] = AnswerKeys
    /\ pc # "returned" => CanStep

\* an empty query with a session, every completion request raised, nothing
\* retrieved, and the chat store failed too
C1_Witness ==
    /\ Returned
    /\ query = "" /\ session_id = "s1"
    /\ calls # <<>> /\ \A i \in 1..Len(calls) : ~calls[i].ok
    /\ chat = <<>>
    /\ Answer.query_type = "error"

\* C2: every item of the documents and chunks lists that search_documents,
\* search_chunks and hybrid_search return has similarity >= the threshold
\* held in similarity_threshold; a candidate below it never appears.
C2_ThresholdFilter ==
    /\ \A i \in 1..Len(relevant_docs) : relevant_docs[i].similarity >= threshold
    /\ \A i \in 1..Len(relevant_chunks) : relevant_chunks[i].similarity >= threshold
    /\ (Returned /\ Answer.search_results # <<>>) =>
          /\ \A i \in 1..Len(Echo.documents) :
                Echo.documents[i].similarity >= threshold
          /\ \A i \in 1..Len(Echo.chunks) :
                Echo.chunks[i].similarity >= threshold

\* the store offered a chunk above and a chunk below the threshold, and
\* hybrid_search returned the first without the second
C2_Witness ==
    /\ pc = "classify_query"
    /\ threshold = DefaultThreshold
    /\ storeChunks = AsRows(<<85, 60>>)
    /\ relevant_chunks = <<[id |-> 1, similarity |-> 85]>>

\* C3: the confidence computed by _calculate_confidence and returned by
\* ask_question is within [0.0, 1.0], is a whole number of hundredths, and
\* is 0.0 whenever both the documents and the chunks lists are empty.
C3_ConfidenceRange ==
    /\ \A c \in calculate_confidence(relevant_docs, relevant_chunks) :
          /\ c \in 0..FullConfidence
          /\ (relevant_docs = <<>> /\ relevant_chunks = <<>>) => c = 0
    /\ answer_data # <<>> =>
          /\ answer_data[1].confidence \in 0..FullConfidence
          /\ (relevant_docs = <<>> /\ relevant_chunks = <<>>) =>
                answer_data[1].confidence = 0
    /\ Returned =>
          /\ Answer.confidence \in 0..FullConfidence
          /\ (Answer.search_results # <<>>
                /\ Echo.documents = <<>> /\ Echo.chunks = <<>>) =>
                Answer.confidence = 0

\* ten documents of similarity 0.85: 0.85 + 0.3 is clamped to 1.0
C3_Witness ==
    /\ SuccessAnswer
    /\ Len(Echo.documents) = DocLimit
    /\ Answer.confidence = FullConfidence

\* the hundredths nearest to min(mean(sims) + min(0.1 * n, 0.3), 1.0), n the
\* number of similarities strictly above 0.8
SpecConfidence(sims) ==
    LET n == Cardinality({i \in 1..Len(sims) : sims[i] > GoodSimilarity})
        bonus == IF n >= 3 THEN MaxBonus ELSE n * BonusPerSource
        \* Len(sims) * (mean + bonus), and the same clamped to Len(sims) * 1.0
        raw == SumSeq(sims) + Len(sims) * bonus
        clamped == IF raw > Len(sims) * FullConfidence
                   THEN Len(sims) * FullConfidence ELSE raw
    IN  {c \in 0..FullConfidence :
            /\ 2 * (c * Len(sims) - clamped) <= Len(sims)
            /\ 2 * (clamped - c * Len(sims)) <= Len(sims)}

\* C4: on the success path with vector evidence, confidence is
\* round(min(mean(similarities of documents and chunks) + min(0.1 * n, 0.3),
\* 1.0), 2), n counting the similarities strictly above 0.8; the knowledge
\* graph items do not enter it; one document of 0.85 and no chunks give 0.95.
C4_ConfidenceFormula ==
    (SuccessAnswer /\ (Echo.documents # <<>> \/ Echo.chunks # <<>>)) =>
        /\ Answer.confidence \in SpecConfidence(Similarities(Echo.documents, Echo.chunks))
        /\ (Len(Echo.documents) = 1 /\ Echo.documents[1].similarity = 85
              /\ Echo.chunks = <<>>) => Answer.confidence = 95

\* the example, with a knowledge-graph item retrieved as well
C4_Witness ==
    /\ SuccessAnswer
    /\ Len(Echo.documents) = 1 /\ Echo.documents[1].similarity = 85
    /\ Echo.chunks = <<>>
    /\ Echo.knowledge_graph # <<>>
    /\ Answer.confidence = 95

StageOrder == <<"search", "analyze", "synthesize", "verify">>

\* C6: in a run of the pipeline the stages run in the order search, analyze,
\* synthesize, verify, each at most once and one at a time; the transcript is
\* the question followed by the outputs of the stages run so far in that
\* order, and after a complete run it is [question, search output, analyze
\* output, synthesize output, verify output].
C6_StageOrder ==
    /\ Len(stage_outs) <= 4
    /\ \A i \in 1..Len(stage_outs) : stage_outs[i].op = StageOrder[i]
    /\ pc = "graph" =>
          /\ Len(stage_outs) < 4
          /\ node = StageOrder[Len(stage_outs) + 1]
    /\ pc \in {"graph", "follow_up"} =>
          /\ Len(messages) = Len(stage_outs) + 1
          /\ messages[1] = query
          /\ \A i \in 1..Len(stage_outs) : messages[i + 1] = stage_outs[i].out
    /\ pc = "follow_up" => Len(messages) = 5

\* a complete run whose last two outputs are the second choice of each stage
C6_Witness ==
    /\ pc = "follow_up"
    /\ messages = <<"mouse", "docs 1 and 2 are relevant", "findings", "draft B",
                    "unsupported">>

\* C7: the answer of a successful pipeline run is the synthesize stage's
\* completion: the verify stage appends its message to the transcript and
\* leaves the response alone, and ask_question returns that answer.
C7_AnswerIsSynthesis ==
    /\ pc = "follow_up" =>
          /\ agent_result[1].status = "success"
          /\ agent_result[1].result = synthesized
          /\ agent_result[1].result = stage_outs[3].out
          /\ messages[5] = stage_outs[4].out
    /\ (answer_data # <<>> /\ answer_data[1].answer.kind = "synthesis") =>
          answer_data[1].answer.detail = synthesized
    /\ SuccessAnswer => Answer.answer.detail = synthesized

\* the verify stage answered "unsupported" and the result is still the draft
C7_Witness ==
    /\ pc = "follow_up"
    /\ messages[5] = "unsupported"
    /\ agent_result[1].result = "draft A"

StageCalls == SelectSeq(calls, LAMBDA c : c.op \in Stages)

\* C8: a completion failure in a pipeline stage aborts the run: the failed
\* stage is not called again, no later stage is called, and execute_search
\* returns status 'error' without raising; when the completion provider was
\* never initialised execute_search returns status 'error' and no completion
\* request is made.
C8_PipelineAbort ==
    /\ ~raised
    /\ \A i \in 1..Len(StageCalls) :
          /\ StageCalls[i].op = StageOrder[i]
          /\ ~StageCalls[i].ok => i = Len(StageCalls)
    /\ (StageCalls # <<>> /\ ~StageCalls[Len(StageCalls)].ok) =>
          /\ pc \in {"compose_error", "store_chat", "store_assistant", "returned"}
          /\ pc = "compose_error" => agent_result[1].status = "error"
    /\ pc = "compose_error" => agent_result[1].status = "error"
    /\ ~llm =>
          /\ calls = <<>>
          /\ pc \notin {"graph", "follow_up"}

\* the synthesize stage failed after two stages had succeeded
C8_Witness ==
    /\ pc = "compose_error"
    /\ Len(StageCalls) = 3
    /\ ~StageCalls[3].ok
    /\ agent_result[1].status = "error"

\* C9: when the pipeline reports status 'error', generate_answer yields an
\* Answer whose text explains the error, with no sources, no follow-up
\* questions, confidence 0.0 (also when documents or chunks were retrieved)
\* and the classifier's query_type; no follow-up request is made.
C9_PipelineErrorAnswer ==
    /\ (pc \in {"store_chat", "store_assistant"}
          /\ \/ ~llm
             \/ (StageCalls # <<>> /\ ~StageCalls[Len(StageCalls)].ok)) =>
          /\ answer_data[1].answer.kind = "pipeline_error"
          /\ answer_data[1].answer.detail \in {"provider error",
                                               "Agent graph not initialized"}
          /\ answer_data[1].sources = <<>>
          /\ answer_data[1].follow_up_questions = <<>>
          /\ answer_data[1].confidence = 0
          /\ answer_data[1].query_type = search_query
          /\ \A i \in 1..Len(calls) : calls[i].op # "follow_up"
    /\ PipelineErrorAnswer =>
          /\ Answer.sources = <<>>
          /\ Answer.follow_up_questions = <<>>
          /\ Answer.confidence = 0
          /\ Answer.query_type \in {classified_type(r) : r \in ClassifyResponses}
          /\ \A i \in 1..Len(calls) : calls[i].op # "follow_up"

\* the pipeline failed with documents retrieved and a classified type
C9_Witness ==
    /\ pc = "store_chat"
    /\ answer_data[1].answer.kind = "pipeline_error"
    /\ relevant_docs # <<>>
    /\ search_query = "comparative"

\* every completion request of the invocation raised
AllCallsRaised == calls # <<>> /\ \A i \in 1..Len(calls) : ~calls[i].ok

\* C10 as stated: when the completion provider raises on every call, the
\* pipeline aborts at the search stage and ask_question returns an Answer
\* with query_type "error", confidence 0.0 and no sources.
C10_Original ==
    (Returned /\ AllCallsRaised) =>
        /\ StageCalls = <<[op |-> "search", ok |-> FALSE]>>
        /\ Answer.query_type = "error"
        /\ Answer.confidence = 0
        /\ Answer.sources = <<>>

\* C10: when the completion provider raises on every call, the pipeline
\* aborts at the search stage and ask_question returns an Answer with
\* confidence 0.0, no sources and query_type "factual", the classifier's
\* fallback; the query_type is "error" only if a chat-store append failed too.
C10_Amended ==
    (Returned /\ AllCallsRaised) =>
        /\ calls = <<[op |-> "classify", ok |-> FALSE],
                     [op |-> "search", ok |-> FALSE]>>
        /\ Answer.confidence = 0
        /\ Answer.sources = <<>>
        /\ IF Answer.answer.kind = "orchestrator_error"
           THEN /\ Answer.query_type = "error"
                /\ session_id = "s1"
                /\ Len(chat) < 2
           ELSE /\ Answer.answer.kind = "pipeline_error"
                /\ Answer.query_type = "factual"

\* every request raised, the chat store worked, and the Answer says factual
C10_Witness ==
    /\ Returned /\ AllCallsRaised
    /\ session_id = "s1"
    /\ Len(chat) = 2
    /\ Answer.query_type = "factual"

\* an append to the chat store failed during the invocation that returned
ChatStoreFailed == Returned /\ session_id = "s1" /\ Len(chat) < 2

ClassifiedTypes == {classified_type(r) : r \in ClassifyResponses}

\* C11 as stated: a chat-store failure while persisting the exchange is
\* recovered locally: ask_question still returns the composed Answer with its
\* classified query_type, not the error-shaped Answer.
C11_Original ==
    ChatStoreFailed =>
        /\ Answer.answer.kind \in {"synthesis", "pipeline_error"}
        /\ Answer.query_type # "error"

\* C11: a chat-store failure while persisting the exchange is not recovered
\* locally: the exception reaches ask_question's except clause and the
\* error-shaped Answer (query_type "error", confidence 0.0, no sources, no
\* follow-ups, empty search_results) is returned in place of the composed
\* one; in every other case, failed sub-searches included, ask_question
\* returns the composed Answer with the classifier's query_type.
C11_Amended ==
    /\ pc \in {"store_chat", "store_assistant"} => answer_data # <<>>
    /\ Returned =>
          IF ChatStoreFailed
          THEN /\ Answer.answer = [kind |-> "orchestrator_error",
                                   detail |-> "store error"]
               /\ Answer.query_type = "error"
               /\ Answer.confidence = 0
               /\ Answer.sources = <<>>
               /\ Answer.follow_up_questions = <<>>
               /\ Answer.num_sources = 0
               /\ Answer.search_results = <<>>
          ELSE /\ Answer.answer.kind \in {"synthesis", "pipeline_error"}
               /\ Answer.query_type \in ClassifiedTypes
               /\ Answer.search_results # <<>>
               /\ session_id = "s1" =>
                     /\ chat[2].content = Answer.answer
                     /\ chat[2].sources = Answer.sources

\* the pipeline and the follow-up request succeeded, the user message was
\* stored, the assistant append failed, and the Answer is the error-shaped one
C11_Witness ==
    /\ ChatStoreFailed
    /\ Len(chat) = 1
    /\ calls # <<>> /\ calls[Len(calls)] = [op |-> "follow_up", ok |-> TRUE]
    /\ Answer.query_type = "error"

\* hybrid_search has returned to generate_answer's caller
HybridSearchReturned == pc = "classify_query"

\* the sub-searches of hybrid_search ran once each, in this order
SubSearches == <<"documents", "chunks", "knowledge_graph">>

\* C12 as stated: if embedding generation for the query fails, hybrid_search
\* returns documents = [] and chunks = [], both empty and never one without
\* the other, still performs the graph search, and with nothing retrieved
\* the Answer has confidence 0.0 and no sources.
C12_Original ==
    /\ (HybridSearchReturned
          /\ \E i \in 1..Len(search_log) : search_log[i].outcome = "no_embedding") =>
          /\ relevant_docs = <<>> /\ relevant_chunks = <<>>
          /\ search_log[3].op = "knowledge_graph"
    /\ (Returned /\ Answer.search_results # <<>> /\ Echo.documents = <<>>
          /\ Echo.chunks = <<>> /\ Echo.knowledge_graph = <<>>) =>
          Answer.confidence = 0 /\ Answer.sources = <<>>

\* C12: the query embedding is requested twice, by search_documents and by
\* search_chunks; the sub-search whose request fails returns [], so documents
\* and chunks are both empty when both requests fail and one can be empty
\* without the other; hybrid_search still performs the graph search and
\* returns its kg_context, and with no documents, chunks and graph items the
\* Answer has confidence 0.0 and no sources.
C12_Amended ==
    /\ HybridSearchReturned =>
          /\ [i \in 1..Len(search_log) |-> search_log[i].op] = SubSearches
          /\ search_log[1].outcome = "no_embedding" => relevant_docs = <<>>
          /\ search_log[2].outcome = "no_embedding" => relevant_chunks = <<>>
          /\ search_log[3].outcome \in {"no_driver", "graph_error"} =>
                kg_context = <<>>
          /\ Len(combined_results)
                = Len(relevant_docs) + Len(relevant_chunks) + Len(kg_context)
    /\ (Returned /\ Answer.search_results # <<>> /\ Echo.documents = <<>>
          /\ Echo.chunks = <<>> /\ Echo.knowledge_graph = <<>>) =>
          Answer.confidence = 0 /\ Answer.sources = <<>>

\* the embedding request of search_documents failed, the one of
\* search_chunks succeeded: no documents, a chunk, and a graph item
C12_Witness ==
    /\ HybridSearchReturned
    /\ search_log[1].outcome = "no_embedding"
    /\ search_log[2].outcome = "ok"
    /\ storeDocs # <<>> /\ storeDocs[1].similarity >= threshold
    /\ relevant_docs = <<>>
    /\ relevant_chunks # <<>>
    /\ kg_context # <<>>

\* C13: hybrid_search never raises and degrades per sub-search: a failed
\* document or chunk search makes that sub-result [] and leaves the other
\* sub-results as they are without the failure; an absent or failing graph
\* store makes knowledge_graph [] and leaves the vector results; with every
\* store failing the result is the all-empty one.
C13_DegradesPerSubSearch ==
    /\ pc \in {"search_documents", "search_chunks", "search_knowledge_graph",
               "classify_query"} => ~raised
    /\ (pc \in {"search_chunks", "search_knowledge_graph", "classify_query"}
          /\ search_log[1].outcome = "ok") =>
          relevant_docs =
              filter_documents(search_similar_documents(storeDocs, DocLimit),
                               threshold)
    /\ (pc \in {"search_knowledge_graph", "classify_query"}
          /\ search_log[2].outcome = "ok") =>
          relevant_chunks =
              filter_chunks(search_similar_chunks(storeChunks, ChunkLimit), threshold)
    /\ HybridSearchReturned =>
          /\ Len(search_log) = 3
          /\ search_log[1].outcome = "store_error" => relevant_docs = <<>>
          /\ search_log[2].outcome = "store_error" => relevant_chunks = <<>>
          /\ search_log[3].outcome \in {"no_driver", "graph_error"} =>
                kg_context = <<>>
          /\ (\A i \in 1..3 : search_log[i].outcome # "ok") =>
                /\ relevant_docs = <<>> /\ relevant_chunks = <<>>
                /\ kg_context = <<>> /\ combined_results = <<>>
          /\ \A i \in 1..Len(combined_results) :
                \/ /\ combined_results[i].type = "document"
                   /\ \E j \in 1..Len(relevant_docs) :
                         relevant_docs[j].id = combined_results[i].id
                \/ /\ combined_results[i].type = "chunk"
                   /\ \E j \in 1..Len(relevant_chunks) :
                         relevant_chunks[j].id = combined_results[i].id
                \/ /\ combined_results[i].type = "knowledge_graph"
                   /\ \E j \in 1..Len(kg_context) :
                         kg_context[j].id = combined_results[i].id

\* the chunk store and the graph store failed, the document store answered:
\* the document is there, alone
C13_Witness ==
    /\ HybridSearchReturned
    /\ search_log[1].outcome = "ok"
    /\ search_log[2].outcome = "store_error"
    /\ search_log[3].outcome = "graph_error"
    /\ storeChunks # <<>> /\ storeChunks[1].similarity >= threshold
    /\ relevant_docs # <<>>
    /\ relevant_chunks = <<>> /\ kg_context = <<>>
    /\ Len(combined_results) = Len(relevant_docs)

\* the place of an item's kind in the input of the merge
KindRank(type) ==
    CASE type = "document" -> 1 [] type = "chunk" -> 2 [] OTHER -> 3

\* item a was handed to the merge before item b
InputBefore(a, b) ==
    \/ KindRank(a.type) < KindRank(b.type)
    \/ a.type = b.type /\ a.id < b.id

\* the items of one kind in a merged list
OfKind(type) == {i \in 1..Len(combined_results) : combined_results[i].type = type}

\* C14: _combine_search_results returns one list holding every document,
\* chunk and knowledge-graph item exactly once, each with its origin type, a
\* relevance score and a display title; documents and chunks score their
\* similarity and every knowledge-graph item exactly 0.5; the list is sorted
\* by score descending and items of equal score keep their input order
\* (documents, then chunks, then knowledge-graph items).
C14_CombineSearchResults ==
    pc = "combined" =>
        /\ Len(combined_results)
              = Len(relevant_docs) + Len(relevant_chunks) + Len(kg_context)
        /\ \A j \in 1..Len(relevant_docs) :
              \E i \in OfKind("document") :
                 /\ combined_results[i].id = relevant_docs[j].id
                 /\ combined_results[i].relevance_score = relevant_docs[j].similarity
                 /\ combined_results[i].title = document_title(relevant_docs[j])
        /\ \A j \in 1..Len(relevant_chunks) :
              \E i \in OfKind("chunk") :
                 /\ combined_results[i].id = relevant_chunks[j].id
                 /\ combined_results[i].relevance_score = relevant_chunks[j].similarity
                 /\ combined_results[i].title = chunk_title(relevant_chunks[j])
        /\ \A j \in 1..Len(kg_context) :
              \E i \in OfKind("knowledge_graph") :
                 /\ combined_results[i].id = kg_context[j].id
                 /\ combined_results[i].relevance_score = 50
                 /\ combined_results[i].title = kg_title(kg_context[j])
        /\ Cardinality(OfKind("document")) = Len(relevant_docs)
        /\ Cardinality(OfKind("chunk")) = Len(relevant_chunks)
        /\ Cardinality(OfKind("knowledge_graph")) = Len(kg_context)
        /\ \A i, j \in 1..Len(combined_results) :
              i < j =>
                 \/ combined_results[i].relevance_score
                       > combined_results[j].relevance_score
                 \/ /\ combined_results[i].relevance_score
                         = combined_results[j].relevance_score
                    /\ InputBefore(combined_results[i], combined_results[j])

\* a document below 0.5, a chunk at 0.5 and two knowledge-graph items: the
\* chunk, the two graph items in their order, then the document
C14_Witness ==
    /\ pc = "combined"
    /\ Len(combined_results) = 4
    /\ [i \in 1..4 |-> combined_results[i].type]
          = <<"chunk", "knowledge_graph", "knowledge_graph", "document">>
    /\ combined_results[1].relevance_score = 50
    /\ combined_results[2].id = 1 /\ combined_results[3].id = 2
    /\ combined_results[4].relevance_score = 40

\* the place of a completion request in the sequence of ask_question
CallRank(op) ==
    CASE op = "classify" -> 1 [] op = "follow_up" -> 3 [] OTHER -> 2

\* the row of the user message of this invocation
UserRow == chat_row("user", [kind |-> "query", detail |-> query], <<>>)

\* C15: within one ask_question invocation the external effects come in a
\* fixed order: retrieval (graph search included) completes before the
\* classification, the classification before the first pipeline stage, the
\* pipeline before the answer is composed, and only then, if a session_id was
\* given, one user message is appended and after it one assistant message
\* carrying the Answer's text and sources; nothing is written to the chat
\* store before the answer is composed.
C15_EffectOrder ==
    /\ pc \in {"idle", "search_documents", "search_chunks",
               "search_knowledge_graph", "classify_query"} =>
          /\ calls = <<>> /\ search_query = "" /\ agent_result = <<>>
          /\ answer_data = <<>> /\ chat = <<>>
    /\ pc = "classify_query" =>
          [i \in 1..Len(search_log) |-> search_log[i].op] = SubSearches
    /\ \A i, j \in 1..Len(calls) :
          i < j => /\ CallRank(calls[i].op) <= CallRank(calls[j].op)
                   /\ calls[j].op # "classify"
                   /\ calls[i].op # "follow_up"
    /\ pc \in {"execute_search", "graph", "follow_up", "compose_error"} =>
          /\ search_query \in ClassifiedTypes
          /\ llm => calls[1].op = "classify"
          /\ answer_data = <<>> /\ chat = <<>>
    /\ pc \in {"execute_search", "graph"} =>
          \A i \in 1..Len(calls) : calls[i].op # "follow_up"
    /\ pc \in {"follow_up", "compose_error"} => agent_result # <<>>
    /\ pc = "store_chat" => answer_data # <<>> /\ chat = <<>>
    /\ pc = "store_assistant" => answer_data # <<>> /\ chat = <<UserRow>>
    /\ chat # <<>> =>
          /\ session_id = "s1"
          /\ pc \in {"store_assistant", "returned"}
          /\ chat[1] = UserRow
          /\ Len(chat) <= 2
          /\ Len(chat) = 2 => chat[2].message_type = "assistant"
    /\ (Returned /\ session_id = "s1" /\ ~OrchestratorErrorAnswer) =>
          chat = <<UserRow, chat_row("assistant", Answer.answer, Answer.sources)>>

\* a full invocation with a session: six completion requests, then the two
\* messages, the assistant's with the sources of the Answer
C15_Witness ==
    /\ Returned /\ session_id = "s1" /\ SuccessAnswer
    /\ [i \in 1..Len(calls) |-> calls[i].op]
          = <<"classify", "search", "analyze", "synthesize", "verify", "follow_up">>
    /\ Len(chat) = 2
    /\ chat[2].sources # <<>>
    /\ chat[2].sources = Answer.sources

\* C16: ask_question called without a session_id (None or empty) performs no
\* chat-store operation: it creates no session and appends no message, at no
\* point of the invocation, so it cannot fail on the chat store and the
\* store is as it was before the call.
C16_NoSessionNoChat ==
    /\ chat_sessions = {"s1"}
    /\ session_id \in {NoSession, ""} =>
          /\ chat = <<>>
          /\ pc # "store_assistant"
          /\ Returned => ~OrchestratorErrorAnswer

\* an answered question with the empty session_id, and an empty chat store
C16_Witness ==
    /\ Returned /\ SuccessAnswer
    /\ session_id = ""
    /\ Answer.sources # <<>>
    /\ chat = <<>>

\* classify_query has just returned
Classified == pc = "execute_search"

\* C17: classify_query never raises and always returns a Query: when the
\* completion provider is unavailable or raises, or its response holds no
\* brace-delimited JSON object, or that object does not parse, the Query has
\* query_type 'factual' and carries no key concepts and no constraints.
C17_ClassifyFallback ==
    /\ pc \in {"classify_query", "execute_search"} => ~raised
    /\ Classified =>
          /\ Len(classified) = 1
          /\ DOMAIN classified[1].query
                = {"query", "query_type", "context", "constraints"}
          /\ classified[1].query.query = query
          /\ classified[1].query.query_type = search_query
          /\ llm <=> classified[1].response # "no_llm"
          /\ classified[1].response \in {"no_llm", "raise", "nojson", "badjson"} =>
                /\ classified[1].query.query_type = "factual"
                /\ classified[1].query.context = None
                /\ classified[1].query.constraints = None

\* the provider answered with an object that does not parse
C17_Witness ==
    /\ Classified
    /\ classified[1].response = "badjson"
    /\ classified[1].query = [query |-> "mouse", query_type |-> "factual",
                               context |-> "None", constraints |-> "None"]

\* generate_answer has composed the Answer of a successful pipeline run
ComposedSuccess ==
    /\ pc = "store_chat"
    /\ answer_data[1].answer.kind = "synthesis"

\* C18: generate_follow_up_questions returns at most 5 questions and never
\* raises: when the completion provider is unavailable, raises, or returns
\* text with no parsable JSON array, the result is the empty list, and the
\* answer text, sources, confidence and query_type of the Answer are what
\* they are with follow-ups available.
C18_FollowUps ==
    /\ \A r \in FollowUpResponses \cup {[kind |-> "nollm", questions |-> <<>>]} :
          /\ Len(follow_up_questions(r)) <= 5
          /\ r.kind # "json" => follow_up_questions(r) = <<>>
          /\ r.kind = "json" =>
                follow_up_questions(r)
                  = SubSeq(r.questions, 1, Min(Len(r.questions), 5))
    /\ pc \in {"follow_up", "store_chat"} => ~raised
    /\ ComposedSuccess =>
          /\ calls[Len(calls)].op = "follow_up"
          /\ Len(answer_data[1].follow_up_questions) <= 5
          /\ ~calls[Len(calls)].ok => answer_data[1].follow_up_questions = <<>>
          /\ answer_data[1].answer.detail = synthesized
          /\ answer_data[1].sources = extract_sources(relevant_docs, relevant_chunks)
          /\ answer_data[1].confidence
                \in calculate_confidence(relevant_docs, relevant_chunks)
          /\ answer_data[1].query_type = search_query
    /\ Returned => Len(Answer.follow_up_questions) <= 5

\* the follow-up request raised: no questions, and an Answer with its text,
\* a source, a confidence and the classified type
C18_Witness ==
    /\ ComposedSuccess
    /\ ~calls[Len(calls)].ok
    /\ answer_data[1].follow_up_questions = <<>>
    /\ answer_data[1].answer.detail = "draft B"
    /\ answer_data[1].sources # <<>>
    /\ answer_data[1].confidence = 95
    /\ answer_data[1].query_type = "comparative"

QueryTypes == {"factual", "analytical", "comparative", "procedural"}

\* C19: the query_type of every Query produced by classify_query is one of
\* factual, analytical, comparative, procedural, and the query_type of every
\* Answer returned by ask_question is one of these or unknown or error,
\* whatever text the completion provider returns.
C19_QueryTypes ==
    /\ Classified => classified[1].query.query_type \in QueryTypes
    /\ Returned => Answer.query_type \in QueryTypes \cup {"unknown", "error"}

\* C20: the retriever's similarity cutoff is the configured similarity
\* threshold: the value the configuration holds, from SIMILARITY_THRESHOLD
\* or after update_from_dict, is the value the documents and chunks that
\* hybrid_search returns were filtered with.
C20_ConfiguredThreshold ==
    HybridSearchReturned =>
        /\ search_log[1].outcome = "ok" =>
              relevant_docs =
                  filter_documents(search_similar_documents(storeDocs, DocLimit),
                                   config_threshold)
        /\ search_log[2].outcome = "ok" =>
              relevant_chunks =
                  filter_chunks(search_similar_chunks(storeChunks, ChunkLimit),
                                config_threshold)

(***************************************************************************)
(* The chat store (src/database.py): create_chat_session and               *)
(* add_chat_message, the latter cut into the statements of its             *)
(* transaction.  Each statement can fail; get_connection then rolls the    *)
(* transaction back and re-raises.                                         *)
(***************************************************************************)
MaxTime == 4
MaxChatMessages == 3

ChatSessionIds == {"s1", "s2"}
MessageTypes == {"user", "assistant"}

\* the variables of the ask_question invocation, at rest
AskIdle ==
    /\ threshold = DefaultThreshold
    /\ llm = FALSE
    /\ driver = FALSE
    /\ storeDocs = <<>>
    /\ storeChunks = <<>>
    /\ config_threshold = DefaultThreshold
    /\ query = ""
    /\ session_id = NoSession
    /\ relevant_docs = <<>>
    /\ relevant_chunks = <<>>
    /\ kg_context = <<>>
    /\ combined_results = <<>>
    /\ search_query = ""
    /\ node = "START"
    /\ messages = <<>>
    /\ analysis = <<>>
    /\ response = ""
    /\ agent_result = <<>>
    /\ answer_data = <<>>
    /\ calls = <<>>
    /\ stage_outs = <<>>
    /\ synthesized = ""
    /\ search_log = <<>>
    /\ classified = <<>>
    /\ result = <<>>
    /\ raised = FALSE

ChatInit ==
    /\ AskIdle
    /\ pc = "idle"
    /\ chat_sessions = {"s1"}
    /\ chat = <<>>
    /\ SideIdle

\* what the chat store's operations leave alone
notChatVars == <<askVars, ingestVars, first_search, invocations, kgVars>>

\* create_chat_session: one INSERT and its commit; the row's last_updated is
\* the time of the insert
create_chat_session ==
    /\ pc = "idle"
    /\ now < MaxTime
    /\ \E s \in ChatSessionIds \ chat_sessions :
          /\ chat_sessions' = chat_sessions \cup {s}
          /\ last_updated' = [x \in chat_sessions \cup {s} |->
                                 IF x = s THEN now ELSE last_updated[x]]
    /\ now' = now + 1
    /\ UNCHANGED <<notChatVars, pc, chat, tx>>

\* add_chat_message(session_id, message_type, content): get_connection opens
\* a connection, CURRENT_TIMESTAMP is the time the transaction starts
add_chat_message ==
    /\ pc = "idle"
    /\ now < MaxTime
    /\ Len(chat) < MaxChatMessages
    /\ \E s \in ChatSessionIds, m \in MessageTypes :
          tx' = <<[session_id |-> s, started |-> now,
                   row |-> [session_id |-> s, message_type |-> m,
                            content |-> "text", sources |-> <<>>],
                   inserted |-> <<>>, updated |-> <<>>]>>
    /\ now' = now + 1
    /\ pc' = "insert_message"
    /\ UNCHANGED <<notChatVars, chat_sessions, chat, last_updated>>

\* get_connection's except clause: conn.rollback(), then the exception goes
\* to the caller of add_chat_message
rollback ==
    /\ tx' = <<>>
    /\ pc' = "idle"
    /\ UNCHANGED <<chat, last_updated>>

\* faulty variant: the INSERT is committed on its own
insert_message_autocommit ==
    /\ pc = "insert_message"
    /\ \/ /\ tx[1].session_id \in chat_sessions
          /\ chat' = Append(chat, tx[1].row)
          /\ tx' = tx
          /\ pc' = "update_session"
          /\ UNCHANGED last_updated
       \/ rollback
    /\ UNCHANGED <<notChatVars, chat_sessions, now>>

\* INSERT INTO chat_messages ... RETURNING id; it fails when the session
\* does not exist (foreign key) or the store does
insert_message ==
    /\ pc = "insert_message"
    /\ \/ /\ tx[1].session_id \in chat_sessions
          /\ tx' = <<[tx[1] EXCEPT !.inserted = <<tx[1].row>>]>>
          /\ pc' = "update_session"
          /\ UNCHANGED <<chat, last_updated>>
       \/ rollback
    /\ UNCHANGED <<notChatVars, chat_sessions, now>>

\* UPDATE chat_sessions SET last_updated = CURRENT_TIMESTAMP WHERE id = ...
update_session ==
    /\ pc = "update_session"
    /\ \/ /\ tx' = <<[tx[1] EXCEPT !.updated = <<tx[1].started>>]>>
          /\ pc' = "commit"
          /\ UNCHANGED <<chat, last_updated>>
       \/ rollback
    /\ UNCHANGED <<notChatVars, chat_sessions, now>>

\* conn.commit(): the transaction's statements take effect together
commit ==
    /\ pc = "commit"
    /\ \/ /\ chat' = chat \o tx[1].inserted
          /\ last_updated' = [last_updated EXCEPT
                                 ![tx[1].session_id] = tx[1].updated[1]]
          /\ tx' = <<>>
          /\ pc' = "idle"
       \/ rollback
    /\ UNCHANGED <<notChatVars, chat_sessions, now>>

ChatNext ==
    \/ create_chat_session
    \/ add_chat_message
    \/ insert_message
    \/ update_session
    \/ commit

ChatSpec == ChatInit /\ [][ChatNext]_vars

\* a step that stored a message
Stored(s) ==
    /\ Len(chat') = Len(chat) + 1
    /\ chat'[Len(chat')].session_id = s

\* C21: the stored messages only grow at the end, no session is removed, a
\* step stores a message of a session exactly when it moves that session's
\* last_updated forward
C21_AppendOnly ==
    [][/\ Len(chat') \in {Len(chat), Len(chat) + 1}
       /\ SubSeq(chat', 1, Len(chat)) = chat
       /\ chat_sessions \subseteq chat_sessions'
       /\ \A s \in chat_sessions :
             /\ Stored(s) <=> last_updated'[s] # last_updated[s]
             /\ Stored(s) => last_updated'[s] > last_updated[s]]_vars

\* two messages of session s1 are stored, the later one by the transaction
\* that started at time 3, and last_updated is that time
C21_Witness ==
    /\ Len(chat) = 2
    /\ chat[1].session_id = "s1" /\ chat[2].session_id = "s1"
    /\ last_updated["s1"] = 3
    /\ now = 4
    /\ pc = "idle"

(***************************************************************************)
(* Ingestion (pages/upload.py, src/document_processor.py,                  *)
(* src/database.py): one file goes through process_single_document,       *)
(* process_bulk_documents or process_existing_files, cut into one step per *)
(* external call.  A text is the number of its words, a chunk's content is *)
(* the range of word positions it covers, an embedding is a list of        *)
(* digits and a string is the list of its characters.                      *)
(***************************************************************************)
MaxFiles == 1
MaxWords == 1601

DefaultChunkSize == 1000
DefaultOverlap == 200

UploadPaths == {"process_single_document", "process_bulk_documents",
                "process_existing_files"}
WordCounts == {0, DefaultChunkSize - DefaultOverlap,
               DefaultChunkSize - DefaultOverlap + 1, MaxWords}

\* Python's None, as a value with a type like the other embedding values
NoEmbedding == [type |-> "NoneType", value |-> <<>>]

\* what generate_embeddings returns: None, or the provider's non-empty list
ProviderEmbeddings == {NoEmbedding, [type |-> "list", value |-> <<1, 2>>]}

\* the loop of chunk_document from word offset i on
RECURSIVE chunk_from(_, _, _, _, _)
chunk_from(i, n, chunk_size, step, chunks) ==
    IF i >= n THEN chunks
    ELSE LET last == Min(i + chunk_size, n)
         IN  chunk_from(i + step, n, chunk_size, step,
                        IF last > i
                        THEN Append(chunks, [content |-> [from |-> i + 1, to |-> last],
                                             chunk_index |-> Len(chunks),
                                             chunk_type |-> "text",
                                             word_count |-> last - i])
                        ELSE chunks)

\* chunk_document(content, chunk_size, overlap) of a content of n words
chunk_document(n, chunk_size, overlap) ==
    chunk_from(0, n, chunk_size, chunk_size - overlap, <<>>)

\* str(d) for a digit
digit_str(d) == <<"0", "1", "2", "3", "4", "5", "6", "7", "8", "9">>[d + 1]

\* ','.join(map(str, xs))
RECURSIVE join_digits(_)
join_digits(xs) ==
    IF xs = <<>> THEN <<>>
    ELSE IF Len(xs) = 1 THEN <<digit_str(xs[1])>>
    ELSE <<digit_str(xs[1]), ",">> \o join_digits(Tail(xs))

\* f"[{','.join(map(str, embedding_result))}]"
format_vector(xs) == [type |-> "str", value |-> <<"[">> \o join_digits(xs) \o <<"]">>]

\* the upload paths' handling of generate_embeddings' result for the document
document_embedding(r) ==
    IF r.type = "list" /\ Len(r.value) > 0
    THEN format_vector(r.value) ELSE NoEmbedding

\* the same for a chunk: process_single_document formats the list, the two
\* bulk paths hand on what generate_embeddings returned
chunk_embedding(path, r) ==
    IF path = "process_single_document" THEN document_embedding(r) ELSE r

\* the chunk embedding when create_embeddings is off
no_chunk_embedding(path) ==
    IF path = "process_single_document" THEN NoEmbedding
    ELSE [type |-> "list", value |-> <<>>]

\* faulty variant: a list of numbers is put into the vector format
clean_embedding_formats_lists(e) ==
    IF e = NoEmbedding THEN NoEmbedding
    ELSE IF e.type \in {"list", "dict"} /\ e.value = <<>> THEN NoEmbedding
    ELSE IF e.type = "str"
         THEN IF /\ Len(e.value) > 0
                 /\ e.value[1] = "["
                 /\ e.value[Len(e.value)] = "]"
              THEN e ELSE NoEmbedding
    ELSE IF e.type = "list" THEN format_vector(e.value)
    ELSE NoEmbedding

\* insert_document's and insert_document_chunk's cleaning of the embedding
clean_embedding(e) ==
    IF e = NoEmbedding THEN NoEmbedding
    ELSE IF e.type \in {"list", "dict"} /\ e.value = <<>> THEN NoEmbedding
    ELSE IF e.type = "str"
         THEN IF /\ Len(e.value) > 0
                 /\ e.value[1] = "["
                 /\ e.value[Len(e.value)] = "]"
              THEN e ELSE NoEmbedding
    ELSE NoEmbedding

\* the embeddings a caller can hand to insert_document and
\* insert_document_chunk: None, lists, dicts, strings with and without the
\* brackets, a number
EmbeddingInputs ==
    {NoEmbedding,
     [type |-> "list", value |-> <<>>],
     [type |-> "list", value |-> <<1, 2>>],
     [type |-> "dict", value |-> <<>>],
     [type |-> "dict", value |-> <<1>>],
     format_vector(<<1, 2>>),
     [type |-> "str", value |-> <<"1", ",", "2">>],
     [type |-> "str", value |-> <<"[", "1", ",", "2">>],
     [type |-> "str", value |-> <<>>],
     [type |-> "float", value |-> <<1>>]}

IngestInit ==
    /\ AskIdle
    /\ pc = "idle"
    /\ chat_sessions = {"s1"}
    /\ chat = <<>>
    /\ SideIdle

notIngestVars == <<askVars, chat_sessions, chat, chatVars, first_search, invocations,
                  kgVars>>

\* the file's content was extracted and is not empty
ProcessFile ==
    /\ pc = "idle"
    /\ Len(documents) < MaxFiles
    /\ \E path \in UploadPaths, n \in WordCounts, e \in BOOLEAN, c \in BOOLEAN :
          /\ ingest' = <<[path |-> path, words |-> n, create_embeddings |-> e,
                          chunk_document |-> c, embedding |-> NoEmbedding,
                          document_id |-> 0, chunks |-> <<>>, i |-> 0,
                          chunk_embedding |-> NoEmbedding, status |-> "running"]>>
          /\ pc' = IF e THEN "embed_document" ELSE "insert_document"
    /\ UNCHANGED <<notIngestVars, documents, document_chunks>>

\* generate_embeddings(processed_data['content'])
EmbedDocument ==
    /\ pc = "embed_document"
    /\ \E r \in ProviderEmbeddings :
          ingest' = <<[ingest[1] EXCEPT !.embedding = document_embedding(r)]>>
    /\ pc' = "insert_document"
    /\ UNCHANGED <<notIngestVars, documents, document_chunks>>

\* an exception reaches the try block around the file: the file is given up
GiveUp ==
    /\ ingest' = <<[ingest[1] EXCEPT !.status = "failed"]>>
    /\ pc' = "idle"
    /\ UNCHANGED <<documents, document_chunks>>

\* the file is done
Finish(locals) ==
    /\ ingest' = <<[locals EXCEPT !.status = "succeeded"]>>
    /\ pc' = "idle"

\* db_manager.insert_document(document_data): committed, or it raises
InsertDocument ==
    /\ pc = "insert_document"
    /\ \/ LET id == Len(documents) + 1
              locals == [ingest[1] EXCEPT !.document_id = id]
          IN  /\ documents' = Append(documents,
                     [id |-> id,
                      embedding |-> clean_embedding(ingest[1].embedding),
                      given |-> ingest[1].embedding,
                      ingested_by |-> ingest[1].path])
              /\ IF ingest[1].chunk_document
                 THEN ingest' = <<locals>> /\ pc' = "chunk_document"
                 ELSE Finish(locals)
              /\ UNCHANGED document_chunks
       \/ GiveUp
    /\ UNCHANGED notIngestVars

\* where the loop over the chunks goes for chunk i (from 1) of the locals
NextChunk(locals, i) ==
    IF i > Len(locals.chunks) THEN Finish(locals)
    ELSE /\ ingest' = <<[locals EXCEPT
                            !.i = i,
                            !.chunk_embedding = no_chunk_embedding(locals.path)]>>
         /\ pc' = IF locals.create_embeddings THEN "embed_chunk" ELSE "insert_chunk"

\* doc_processor.chunk_document(processed_data['content'])
ChunkDocument ==
    /\ pc = "chunk_document"
    /\ NextChunk([ingest[1] EXCEPT !.chunks =
                     chunk_document(ingest[1].words, DefaultChunkSize, DefaultOverlap)],
                 1)
    /\ UNCHANGED <<notIngestVars, documents, document_chunks>>

\* generate_embeddings(chunk['content'])
EmbedChunk ==
    /\ pc = "embed_chunk"
    /\ \E r \in ProviderEmbeddings :
          ingest' = <<[ingest[1] EXCEPT
                          !.chunk_embedding = chunk_embedding(ingest[1].path, r)]>>
    /\ pc' = "insert_chunk"
    /\ UNCHANGED <<notIngestVars, documents, document_chunks>>

\* faulty variant: a failed insert is passed over and the loop goes on
InsertChunk_passes_over_failures ==
    /\ pc = "insert_chunk"
    /\ \/ /\ document_chunks' = Append(document_chunks,
                 [document_id |-> ingest[1].document_id,
                  chunk_index |-> ingest[1].i - 1,
                  content |-> ingest[1].chunks[ingest[1].i].content,
                  embedding |-> clean_embedding(ingest[1].chunk_embedding),
                  given |-> ingest[1].chunk_embedding])
          /\ NextChunk(ingest[1], ingest[1].i + 1)
       \/ /\ UNCHANGED document_chunks
          /\ NextChunk(ingest[1], ingest[1].i + 1)
    /\ UNCHANGED <<notIngestVars, documents>>

\* db_manager.insert_document_chunk(chunk_data) for chunk i of the loop
\* `for i, chunk in enumerate(chunks)`: committed, or it raises
InsertChunk ==
    /\ pc = "insert_chunk"
    /\ \/ /\ document_chunks' = Append(document_chunks,
                 [document_id |-> ingest[1].document_id,
                  chunk_index |-> ingest[1].i - 1,
                  content |-> ingest[1].chunks[ingest[1].i].content,
                  embedding |-> clean_embedding(ingest[1].chunk_embedding),
                  given |-> ingest[1].chunk_embedding])
          /\ NextChunk(ingest[1], ingest[1].i + 1)
          /\ UNCHANGED documents
       \/ GiveUp
    /\ UNCHANGED notIngestVars

\* insert_document called by another caller than the upload paths; each row
\* remembers in `given` the embedding its insert was called with
InsertDocumentCall ==
    /\ pc = "idle"
    /\ Len(documents) < MaxFiles
    /\ \E e \in EmbeddingInputs :
          documents' = Append(documents,
              [id |-> Len(documents) + 1,
               embedding |-> clean_embedding(e),
               given |-> e,
               ingested_by |-> "insert_document"])
    /\ UNCHANGED <<notIngestVars, pc, document_chunks, ingest>>

\* insert_document_chunk called likewise, for the first chunk of such a
\* document
InsertDocumentChunkCall ==
    /\ pc = "idle"
    /\ \E j \in 1..Len(documents), e \in EmbeddingInputs :
          /\ documents[j].ingested_by = "insert_document"
          /\ \A k \in 1..Len(document_chunks) :
                document_chunks[k].document_id # documents[j].id
          /\ document_chunks' = Append(document_chunks,
                 [document_id |-> documents[j].id,
                  chunk_index |-> 0,
                  content |-> [from |-> 1, to |-> 1],
                  embedding |-> clean_embedding(e),
                  given |-> e])
    /\ UNCHANGED <<notIngestVars, pc, documents, ingest>>

IngestNext ==
    \/ InsertDocumentCall
    \/ InsertDocumentChunkCall
    \/ ProcessFile
    \/ EmbedDocument
    \/ InsertDocument
    \/ ChunkDocument
    \/ EmbedChunk
    \/ InsertChunk

IngestSpec == IngestInit /\ [][IngestNext]_vars

\* the chunk_index values of the stored chunks of document d, in the order
\* of their insertion
StoredIndices(d) ==
    LET rows == SelectSeq(document_chunks, LAMBDA c : c.document_id = d)
    IN  [k \in 1..Len(rows) |-> rows[k].chunk_index]

\* 0, 1, ..., n-1
Counting(n) == [k \in 1..n |-> k - 1]

\* the number of chunks a content of n words has: one per started stretch of
\* chunk_size - overlap words
ChunkCount(n) ==
    (n + DefaultChunkSize - DefaultOverlap - 1) \div (DefaultChunkSize - DefaultOverlap)

Chunked == ingest # <<>> /\ pc \in {"embed_chunk", "insert_chunk"}

\* C22: chunk_document numbers its chunks 0..n-1 in order; the stored chunks
\* of every document are numbered 0..k-1 in order, all n of them when the
\* upload succeeded with chunking; every stored chunk belongs to a stored
\* document, and none is stored for an upload whose document was not
C22_ChunkIndices ==
    /\ \A d \in 1..MaxFiles : \E k \in 0..Len(document_chunks) :
          StoredIndices(d) = Counting(k)
    /\ \A k \in 1..Len(document_chunks) :
          \E j \in 1..Len(documents) : documents[j].id = document_chunks[k].document_id
    /\ ingest # <<>> =>
          LET l == ingest[1]
              shown == [k \in 1..Len(l.chunks) |-> l.chunks[k].chunk_index]
          IN  /\ shown = Counting(Len(l.chunks))
              /\ Chunked => Len(l.chunks) = ChunkCount(l.words)
              /\ l.document_id = 0 => l.chunks = <<>>
              /\ l.document_id # 0 =>
                    /\ Chunked => StoredIndices(l.document_id) = Counting(l.i - 1)
                    /\ l.status = "succeeded" /\ l.chunk_document =>
                          StoredIndices(l.document_id) = Counting(ChunkCount(l.words))

\* the third chunk insert of a three-chunk upload failed: chunks 0 and 1 are
\* stored
C22_Witness ==
    /\ ingest # <<>>
    /\ ingest[1].status = "failed"
    /\ Len(ingest[1].chunks) = 3
    /\ Len(documents) = 1
    /\ StoredIndices(1) = <<0, 1>>

(***************************************************************************)
(* hybrid_search called twice with one query text (src/rag_system.py):     *)
(* the stores do not change between the calls, the providers answer each   *)
(* call as they please.                                                    *)
(***************************************************************************)
RepeatInit ==
    /\ threshold = DefaultThreshold
    /\ llm = FALSE
    /\ driver \in BOOLEAN
    /\ storeDocs \in DocStores
    /\ storeChunks \in ChunkStores
    /\ config_threshold = DefaultThreshold
    /\ chat_sessions = {"s1"}
    /\ pc = "idle"
    /\ query = ""
    /\ session_id = NoSession
    /\ relevant_docs = <<>>
    /\ relevant_chunks = <<>>
    /\ kg_context = <<>>
    /\ combined_results = <<>>
    /\ search_query = ""
    /\ node = "START"
    /\ messages = <<>>
    /\ analysis = <<>>
    /\ response = ""
    /\ agent_result = <<>>
    /\ answer_data = <<>>
    /\ chat = <<>>
    /\ calls = <<>>
    /\ stage_outs = <<>>
    /\ synthesized = ""
    /\ search_log = <<>>
    /\ classified = <<>>
    /\ result = <<>>
    /\ raised = FALSE
    /\ SideIdle

\* the host calls hybrid_search(q)
HybridSearch ==
    /\ pc = "idle"
    /\ \E q \in Queries : query' = q
    /\ pc' = "search_documents"
    /\ UNCHANGED <<threshold, envVars, session_id, ghostVars, searchVars, search_query,
                   graphVars, agent_result, answer_data, chat, calls, outVars>>

\* the first call returned and the host calls hybrid_search again with the
\* same text; what the first call returned and how its providers answered
\* is kept for the comparison
HybridSearchAgain ==
    /\ pc = "classify_query"
    /\ first_search = <<>>
    /\ first_search' = <<[documents |-> relevant_docs,
                          chunks |-> relevant_chunks,
                          knowledge_graph |-> kg_context,
                          combined_results |-> combined_results,
                          answers |-> search_log]>>
    /\ search_log' = <<>>
    /\ pc' = "search_documents"
    /\ UNCHANGED <<threshold, llm, driver, storeDocs, storeChunks, config_threshold,
                   chat_sessions, chatVars, ingestVars, invocations, kgVars, argVars,
                   synthesized,
                   classified, searchVars, search_query, graphVars, agent_result,
                   answer_data, chat, calls, outVars>>

RepeatNext ==
    \/ HybridSearch
    \/ SearchDocuments
    \/ SearchChunks
    \/ SearchKnowledgeGraph
    \/ HybridSearchAgain

RepeatSpec == RepeatInit /\ [][RepeatNext]_vars

\* the second call returned, and the embedding provider, the document store
\* and the graph store answered it as they answered the first
SecondReturned == pc = "classify_query" /\ first_search # <<>>
SameAnswers ==
    /\ search_log = first_search[1].answers
    /\ kg_context = first_search[1].knowledge_graph

Invocations == {"A", "B"}

\* what generate_answer can hand to ask_question
ComposedAnswers ==
    {answer_success([result |-> "text"], <<>>, <<>>, <<>>, "factual", 0),
     answer_pipeline_error([error |-> "failed"], <<>>, <<>>, "unknown")}

\* no invocation has started; `stored` lists the positions in the
\* session's log where the invocation's messages went
ConcurrentInit ==
    /\ AskIdle
    /\ pc = "idle"
    /\ chat_sessions = {"s1"}
    /\ chat = <<>>
    /\ ChatIdle
    /\ IngestIdle
    /\ KgIdle
    /\ first_search = <<>>
    /\ invocations = [p \in Invocations |->
                         [pc |-> "idle", query |-> "", answer_data |-> <<>>,
                          stored |-> <<>>, result |-> <<>>]]

notConcurrentVars == <<askVars, pc, chat_sessions, chatVars, ingestVars, first_search,
                      kgVars>>

\* ask_question(q, "s1") is called
AskQuestionOf(p) ==
    /\ invocations[p].pc = "idle"
    /\ \E q \in Queries :
          invocations' = [invocations EXCEPT ![p].pc = "generate_answer",
                                             ![p].query = q]
    /\ UNCHANGED <<notConcurrentVars, chat>>

\* hybrid_search and generate_answer
GenerateAnswerOf(p) ==
    /\ invocations[p].pc = "generate_answer"
    /\ \E data \in ComposedAnswers :
          invocations' = [invocations EXCEPT ![p].pc = "store_chat",
                                             ![p].answer_data = <<data>>]
    /\ UNCHANGED <<notConcurrentVars, chat>>

\* the invocation returns `out`
ReturnOf(p, out, stored) ==
    invocations' = [invocations EXCEPT ![p].pc = "returned",
                                       ![p].result = out.value,
                                       ![p].stored = stored,
                                       ![p].answer_data = <<>>]

\* the mapping the invocation returns at the end of its try block
TheAnswerOf(p) ==
    ask_question_return(invocations[p].query, invocations[p].answer_data[1],
                        <<>>, <<>>, <<>>, <<>>)

\* faulty variant: a failed user append is passed over
AddUserMessageOf_passes_over_failure(p) ==
    /\ invocations[p].pc = "store_chat"
    /\ \/ /\ chat' = Append(chat, chat_row("user",
                         [kind |-> "query", detail |-> invocations[p].query], <<>>))
          /\ invocations' = [invocations EXCEPT
                                ![p].pc = "store_assistant",
                                ![p].stored = <<Len(chat) + 1>>]
       \/ /\ chat' = chat
          /\ invocations' = [invocations EXCEPT ![p].pc = "store_assistant"]
    /\ UNCHANGED notConcurrentVars

\* add_chat_message("s1", 'user', query)
AddUserMessageOf(p) ==
    /\ invocations[p].pc = "store_chat"
    /\ \/ /\ chat' = Append(chat, chat_row("user",
                         [kind |-> "query", detail |-> invocations[p].query], <<>>))
          /\ invocations' = [invocations EXCEPT
                                ![p].pc = "store_assistant",
                                ![p].stored = <<Len(chat) + 1>>]
       \/ /\ chat' = chat
          /\ ReturnOf(p, ask_question_except(invocations[p].query, "store error"),
                      invocations[p].stored)
    /\ UNCHANGED notConcurrentVars

\* add_chat_message("s1", 'assistant', answer, sources), then the return
AddAssistantMessageOf(p) ==
    /\ invocations[p].pc = "store_assistant"
    /\ \/ /\ chat' = Append(chat, chat_row("assistant",
                                           invocations[p].answer_data[1].answer,
                                           invocations[p].answer_data[1].sources))
          /\ ReturnOf(p, [raised |-> FALSE, value |-> <<TheAnswerOf(p)>>],
                      Append(invocations[p].stored, Len(chat) + 1))
       \/ /\ chat' = chat
          /\ ReturnOf(p, ask_question_except(invocations[p].query, "store error"),
                      invocations[p].stored)
    /\ UNCHANGED notConcurrentVars

ConcurrentNext ==
    \/ \E p \in Invocations : AskQuestionOf(p)
    \/ \E p \in Invocations : GenerateAnswerOf(p)
    \/ \E p \in Invocations : AddUserMessageOf(p)
    \/ \E p \in Invocations : AddAssistantMessageOf(p)

ConcurrentSpec == ConcurrentInit /\ [][ConcurrentNext]_vars

\* the message types of the invocation's stored messages, in log order
StoredTypes(p) ==
    [k \in 1..Len(invocations[p].stored) |->
        chat[invocations[p].stored[k]].message_type]

\* C24: of each invocation the session's log holds nothing, its user
\* message, or its user message and later its assistant message; the
\* positions of different invocations' messages may interleave
C24_PerInvocationOrder ==
    \A p \in DOMAIN invocations :
        /\ StoredTypes(p) \in {<<>>, <<"user">>, <<"user", "assistant">>}
        /\ \A k \in 1..Len(invocations[p].stored) - 1 :
              invocations[p].stored[k] < invocations[p].stored[k + 1]
        /\ invocations[p].stored # <<>> =>
              chat[invocations[p].stored[1]].content.detail = invocations[p].query

\* the log reads user-A, user-B, assistant-A, assistant-B
C24_Witness ==
    /\ invocations # <<>>
    /\ invocations["A"].stored = <<1, 3>>
    /\ invocations["B"].stored = <<2, 4>>
    /\ [k \in 1..4 |-> chat[k].message_type]
          = <<"user", "user", "assistant", "assistant">>

(***************************************************************************)
(* search_knowledge_graph against a graph store (src/rag_system.py,        *)
(* src/neo4j_manager.py), one step per graph query.  A text is the list of *)
(* its characters; a node's id is a number, 0 standing for a node without  *)
(* one; a relationship names its end nodes by their place in the store.    *)
(***************************************************************************)
MaxGraphNodes == 2
MaxRelationships == 1
MaxLargeGraph == 21

EntityLimit == 20

Mouse == <<"M", "o", "u", "s", "e">>
Chamber == <<"M", "i", "c", "r", "o", "g", "r", "a", "v", "i", "t", "y", " ",
             "C", "h", "a", "m", "b", "e", "r">>

\* the nodes a small store is made of: two entities, an entity without an
\* id, and a document node whose name would match
MouseEntity == [label |-> "Entity", id |-> 1, name |-> Mouse, description |-> <<>>]
ChamberEntity ==
    [label |-> "Entity", id |-> 2, name |-> Chamber, description |-> <<"l", "a", "b">>]

NodeKinds ==
    {MouseEntity,
     ChamberEntity,
     [label |-> "Entity", id |-> 0, name |-> <<"l", "a", "b">>,
      description |-> <<"m", "o", "u", "s", "e">>],
     [label |-> "Document", id |-> 3, name |-> Mouse, description |-> <<>>]}

GraphQueries == {<<>>, <<"m", "o", "u", "s", "e">>, Mouse, <<"l", "a", "b">>}

\* the lists of at most n different elements of S
RECURSIVE ListsWithoutRepeats(_, _)
ListsWithoutRepeats(S, n) ==
    IF n = 0 THEN {<<>>}
    ELSE LET shorter == ListsWithoutRepeats(S, n - 1)
             longer == {Append(l, x) : l \in shorter, x \in S}
         IN  shorter \cup {l \in longer :
                               \A i, j \in 1..Len(l) : i < j => l[i] # l[j]}

\* the relationships there can be between n nodes
Links(n) ==
    {[from |-> e[1], to |-> e[2], type |-> "STUDIES"] :
        e \in {e \in (1..n) \X (1..n) : e[1] # e[2]}}

SmallGraphs ==
    UNION {{[nodes |-> ns, relationships |-> rs] :
               rs \in ListsWithoutRepeats(Links(Len(ns)), MaxRelationships)} :
           ns \in ListsWithoutRepeats(NodeKinds, MaxGraphNodes)}

\* more matching entities than search_graph's limit; the last one is linked
\* to the first
LargeGraph ==
    [nodes |-> [i \in 1..MaxLargeGraph |->
                   [label |-> "Entity", id |-> i, name |-> Mouse,
                    description |-> <<>>]],
     relationships |-> <<[from |-> MaxLargeGraph, to |-> 1, type |-> "STUDIES"]>>]

\* toLower
lower_char(c) == IF c = "M" THEN "m" ELSE IF c = "C" THEN "c" ELSE c
toLower(s) == [i \in 1..Len(s) |-> lower_char(s[i])]

\* a CONTAINS b
CONTAINS(a, b) ==
    \E i \in 0..(Len(a) - Len(b)) : SubSeq(a, i + 1, i + Len(b)) = b

\* search_graph(query_text, limit) when the query succeeds: the match order
\* is the store's
search_graph(store, query_text, limit) ==
    LET matched == SelectSeq(store.nodes, LAMBDA e :
                      /\ e.label = "Entity"
                      /\ \/ CONTAINS(toLower(e.name), toLower(query_text))
                         \/ CONTAINS(toLower(e.description), toLower(query_text)))
    IN  [k \in 1..Min(Len(matched), limit) |-> [data |-> matched[k], type |-> "entity"]]

\* faulty variant: MATCH (e {id: $entity_id})-[r]->(connected)
get_entity_relationships_outgoing(store, entity_id) ==
    LET rows == [k \in 1..Len(store.relationships) |->
                    [id |-> k,
                     source |-> store.nodes[store.relationships[k].from],
                     relationship |-> store.relationships[k],
                     target |-> store.nodes[store.relationships[k].to]]]
    IN  SelectSeq(rows, LAMBDA row : row.source.id = entity_id)

\* get_entity_relationships(entity_id) when the query succeeds:
\* MATCH (e {id: $entity_id})-[r]-(connected), one row per relationship and
\* end that fits
get_entity_relationships(store, entity_id) ==
    LET n == Len(store.relationships)
        rows == [k \in 1..(2 * n) |->
                    LET r == store.relationships[(k + 1) \div 2]
                    IN  IF k % 2 = 1
                        THEN [id |-> (k + 1) \div 2,
                              source |-> store.nodes[r.from],
                              relationship |-> r,
                              target |-> store.nodes[r.to]]
                        ELSE [id |-> (k + 1) \div 2,
                              source |-> store.nodes[r.to],
                              relationship |-> r,
                              target |-> store.nodes[r.from]]]
    IN  SelectSeq(rows, LAMBDA row : row.source.id = entity_id)

KgInit ==
    /\ AskIdle
    /\ pc = "idle"
    /\ chat_sessions = {"s1"}
    /\ chat = <<>>
    /\ ChatIdle
    /\ IngestIdle
    /\ first_search = <<>>
    /\ invocations = <<>>
    /\ graph_store \in SmallGraphs \cup {LargeGraph}
    /\ graph_search = <<>>

\* KgSpec lets the driver be present or absent at the call
notKgVars == <<threshold, llm, storeDocs, storeChunks, config_threshold, session_id,
               ghostVars, relevant_docs, relevant_chunks, search_query, graphVars,
               agent_result, answer_data, calls, outVars, chat_sessions, chat,
               chatVars, ingestVars, first_search, invocations>>

\* search_knowledge_graph(query) is called: without a driver it returns []
KgCall ==
    /\ pc = "idle"
    /\ graph_search = <<>>
    /\ \E q \in GraphQueries, d \in BOOLEAN :
          /\ query' = q
          /\ driver' = d
          /\ graph_search' = <<[entities |-> <<>>, i |-> 0, kg_context |-> <<>>,
                                queries |-> 0, failed |-> FALSE]>>
          /\ pc' = IF d THEN "search_graph" ELSE "return_kg"
    /\ UNCHANGED <<notKgVars, graph_store, kg_context, combined_results>>

\* neo4j_manager.search_graph(query, limit=20): a failure is swallowed and
\* reads as no match
KgSearchGraph ==
    /\ pc = "search_graph"
    /\ \E ok \in BOOLEAN :
          graph_search' = <<[graph_search[1] EXCEPT
              !.entities = IF ok THEN search_graph(graph_store, query, EntityLimit)
                           ELSE <<>>,
              !.i = 1,
              !.queries = @ + 1,
              !.failed = ~ok]>>
    /\ pc' = "relationships"
    /\ UNCHANGED <<notKgVars, graph_store, query, driver, kg_context, combined_results>>

\* one turn of the loop over the entities: an entity with an id has its
\* relationships fetched, a failure of that query being swallowed
KgEntityRelationships ==
    /\ pc = "relationships"
    /\ graph_search[1].i <= Len(graph_search[1].entities)
    /\ LET l == graph_search[1]
           entity == l.entities[l.i]
       IN  IF entity.type = "entity" /\ entity.data.id # 0
           THEN \E ok \in BOOLEAN :
                   graph_search' = <<[l EXCEPT
                       !.kg_context = IF ok
                           THEN @ \o get_entity_relationships(graph_store, entity.data.id)
                           ELSE @,
                       !.i = @ + 1,
                       !.queries = @ + 1,
                       !.failed = @ \/ ~ok]>>
           ELSE graph_search' = <<[l EXCEPT !.i = @ + 1]>>
    /\ UNCHANGED <<notKgVars, pc, graph_store, query, driver, kg_context,
                   combined_results>>

KgLoopEnds ==
    /\ pc = "relationships"
    /\ graph_search[1].i > Len(graph_search[1].entities)
    /\ pc' = "return_kg"
    /\ UNCHANGED <<notKgVars, kgVars, query, driver, kg_context, combined_results>>

\* search_knowledge_graph returns and hybrid_search merges what it got
KgReturn ==
    /\ pc = "return_kg"
    /\ kg_context' = graph_search[1].kg_context
    /\ combined_results' = combine_search_results(<<>>, <<>>, graph_search[1].kg_context)
    /\ pc' = "returned"
    /\ UNCHANGED <<notKgVars, kgVars, query, driver>>

KgNext ==
    \/ KgCall
    \/ KgSearchGraph
    \/ KgEntityRelationships
    \/ KgLoopEnds
    \/ KgReturn

KgSpec == KgInit /\ [][KgNext]_vars

\* search_knowledge_graph has returned; the graph store answered every query
KgReturned == pc = "returned" /\ graph_search # <<>>
GraphReachable == driver /\ ~graph_search[1].failed

\* relationship r of the store has node e at one end
Touches(r, e) ==
    \/ graph_store.nodes[r.from] = e
    \/ graph_store.nodes[r.to] = e

\* the node at the other end
OtherEnd(r, e) ==
    IF graph_store.nodes[r.from] = e THEN graph_store.nodes[r.to]
    ELSE graph_store.nodes[r.from]

\* the place of node e among the matched entities
MatchPlace(e) ==
    CHOOSE k \in 1..Len(graph_search[1].entities) : graph_search[1].entities[k].data = e

\* C25: with the graph store answering, at most 20 entities are matched and
\* the result holds, for every matched entity with an id and every
\* relationship that has it at either end, exactly one item, the items in
\* the order of the matches; nothing else is in it, and each item enters the
\* merged evidence with relevance 0.5.  Without a driver the result is empty
\* and no graph query was made.  Mouse and Microgravity Chamber with one
\* relationship and the query 'mouse' give exactly that relationship.
C25_SearchKnowledgeGraph ==
    KgReturned =>
        LET l == graph_search[1]
            withId == {k \in 1..Len(l.entities) : l.entities[k].data.id # 0}
            rels == graph_store.relationships
        IN  /\ ~driver => kg_context = <<>> /\ l.queries = 0
            /\ GraphReachable =>
                  /\ Len(l.entities) <= EntityLimit
                  /\ \A k \in withId : \A j \in 1..Len(rels) :
                        Touches(rels[j], l.entities[k].data) =>
                            Cardinality({i \in 1..Len(kg_context) :
                                /\ kg_context[i].source = l.entities[k].data
                                /\ kg_context[i].id = j}) = 1
                  /\ \A i \in 1..Len(kg_context) :
                        /\ \E k \in withId : kg_context[i].source = l.entities[k].data
                        /\ kg_context[i].relationship = rels[kg_context[i].id]
                        /\ Touches(rels[kg_context[i].id], kg_context[i].source)
                        /\ kg_context[i].target =
                               OtherEnd(rels[kg_context[i].id], kg_context[i].source)
                  /\ \A i, j \in 1..Len(kg_context) :
                        i < j => MatchPlace(kg_context[i].source)
                                     <= MatchPlace(kg_context[j].source)
                  /\ Len(combined_results) = Len(kg_context)
                  /\ \A i \in 1..Len(combined_results) :
                        /\ combined_results[i].type = "knowledge_graph"
                        /\ combined_results[i].relevance_score = KgScore
                  /\ (/\ graph_store.nodes = <<MouseEntity, ChamberEntity>>
                      /\ Len(rels) = 1
                      /\ query = toLower(Mouse)) =>
                        /\ Len(kg_context) = 1
                        /\ kg_context[1].relationship = rels[1]
                        /\ kg_context[1].source = MouseEntity
                        /\ kg_context[1].target = ChamberEntity

\* Microgravity Chamber STUDIES Mouse: the query 'mouse' matched Mouse alone
\* and returned the relationship that ends at it
C25_Witness ==
    /\ KgReturned
    /\ GraphReachable
    /\ graph_store.nodes = <<MouseEntity, ChamberEntity>>
    /\ graph_store.relationships = <<[from |-> 2, to |-> 1, type |-> "STUDIES"]>>
    /\ query = toLower(Mouse)
    /\ Len(graph_search[1].entities) = 1
    /\ Len(kg_context) = 1
    /\ combined_results[1].relevance_score = KgScore

(***************************************************************************)
(* ask_question: termination and the number of external requests           *)
(***************************************************************************)
\* how far the invocation has come
StepRank ==
    CASE pc = "idle" -> 0
      [] pc = "search_documents" -> 1
      [] pc = "search_chunks" -> 2
      [] pc = "search_knowledge_graph" -> 3
      [] pc = "classify_query" -> 4
      [] pc = "execute_search" -> 5
      [] pc = "graph" -> 5 + CHOOSE i \in 1..4 : StageOrder[i] = node
      [] pc \in {"follow_up", "compose_error"} -> 10
      [] pc = "store_chat" -> 11
      [] pc = "store_assistant" -> 12
      [] pc = "returned" -> 13

CompletionOps == {"classify", "follow_up"} \cup Stages

\* C26: once called, ask_question moves forward with every step, so that no
\* step is run twice and the invocation returns after at most 13 steps, none
\* of which can block it once the external call has answered or failed; it
\* makes at most one completion request for the classification, one for each
\* of the four stages and one for the follow-up questions, and appends at
\* most two chat messages
C26_Terminates ==
    [][/\ pc # "idle" => StepRank' > StepRank
       /\ pc' # "returned" => CanStep'
       /\ Len(calls') <= 6
       /\ \A i \in 1..Len(calls') : calls'[i].op \in CompletionOps
       /\ \A i, j \in 1..Len(calls') : i < j => calls'[i].op # calls'[j].op
       /\ Len(chat') <= 2]_vars

\* the invocation returned after six completion requests and two appends
C26_Witness ==
    /\ Returned
    /\ Len(calls) = 6
    /\ Len(chat) = 2

(***************************************************************************)
(* ask_question: what a call with a session leaves in the chat store       *)
(***************************************************************************)
\* the mapping is the one ask_question's except clause builds
ErrorShaped(a) ==
    /\ a.query_type = "error"
    /\ a.sources = <<>>
    /\ a.answer.kind = "orchestrator_error"

\* C27: a call with a session returns with an answer composed and with 2, 1
\* or 0 messages stored: two are the user message then the assistant message
\* and the composed Answer is returned; one is the user message and none is
\* none, and in both cases the Answer returned is the error-shaped one.  No
\* assistant message is ever stored without the user message before it.
C27_ExchangeOutcomes ==
    [][(pc' = "returned" /\ session_id \notin {NoSession, ""}) =>
          /\ answer_data # <<>>
          /\ Len(chat') \in {0, 1, 2}
          /\ Len(chat') = 2 =>
                /\ chat' = <<UserRow, chat_row("assistant", answer_data[1].answer,
                                               answer_data[1].sources)>>
                /\ result' = <<TheAnswer>>
          /\ Len(chat') = 1 =>
                /\ chat' = <<UserRow>>
                /\ Len(result') = 1 /\ ErrorShaped(result'[1])
          /\ Len(chat') = 0 =>
                /\ Len(result') = 1 /\ ErrorShaped(result'[1])]_vars

\* the assistant append failed after the pipeline had synthesized an answer:
\* the user message alone is stored and the error-shaped Answer returned
C27_Witness ==
    /\ Returned
    /\ session_id = "s1"
    /\ chat = <<UserRow>>
    /\ ErrorShaped(Answer)
    /\ synthesized # ""

(***************************************************************************)
(* ask_question: the confidences it can return                             *)
(***************************************************************************)
\* what _calculate_confidence's except clause returns
FallbackConfidence == 50

\* C28: under the default threshold 0.7 the confidence of a returned Answer
\* is 0.0 or at least 0.7: it is 0.0 for the orchestrator's and the
\* pipeline's error Answers and for a success without documents and chunks,
\* at least 0.7 for a success with some, and never the 0.5 that
\* _calculate_confidence falls back to
C28_ConfidenceGap ==
    (Returned /\ threshold = DefaultThreshold) =>
        /\ Answer.confidence = 0 \/ Answer.confidence >= DefaultThreshold
        /\ Answer.confidence # FallbackConfidence
        /\ OrchestratorErrorAnswer \/ PipelineErrorAnswer => Answer.confidence = 0
        /\ SuccessAnswer =>
              (Answer.confidence = 0 <=>
                  Echo.documents = <<>> /\ Echo.chunks = <<>>)

\* a success on one document of similarity 0.8 and nothing else: confidence
\* 0.8, no bonus
C28_Witness ==
    /\ Returned
    /\ threshold = DefaultThreshold
    /\ SuccessAnswer
    /\ Len(Echo.documents) = 1 /\ Echo.chunks = <<>>
    /\ Answer.confidence = GoodSimilarity

(***************************************************************************)
(* hybrid_search: the graph items in combined_results                      *)
(***************************************************************************)
\* the ids of the knowledge-graph items of a merged list, in its order
KgIds(combined) ==
    LET items == SelectSeq(combined, LAMBDA x : x.type = "knowledge_graph")
    IN  [k \in 1..Len(items) |-> items[k].id]

\* C29: under a threshold above 0.5 the list hybrid_search returns as
\* combined_results is as long as documents, chunks and knowledge_graph
\* together, no knowledge-graph item comes before a document or chunk item,
\* and the knowledge-graph items stand in the order the graph search
\* returned them
C29_GraphItemsLast ==
    (HybridSearchReturned /\ threshold > KgScore) =>
        /\ Len(combined_results)
              = Len(relevant_docs) + Len(relevant_chunks) + Len(kg_context)
        /\ \A i, j \in 1..Len(combined_results) :
              (i < j /\ combined_results[i].type = "knowledge_graph") =>
                  combined_results[j].type = "knowledge_graph"
        /\ KgIds(combined_results) = [k \in 1..Len(kg_context) |-> kg_context[k].id]

\* a document, a chunk and two graph items were merged under the default
\* threshold
C29_Witness ==
    /\ HybridSearchReturned
    /\ threshold = DefaultThreshold
    /\ relevant_docs # <<>>
    /\ relevant_chunks # <<>>
    /\ Len(kg_context) = 2
    /\ Len(combined_results) >= 4

(***************************************************************************)
(* The embeddings insert_document and insert_document_chunk store          *)
(***************************************************************************)
\* a string that starts with '[' and ends with ']'
Bracketed(e) ==
    /\ e.type = "str"
    /\ e.value # <<>>
    /\ Head(e.value) = "["
    /\ e.value[Len(e.value)] = "]"

\* the stored chunks that have an embedding, as search_similar_chunks ranks
\* them: they all hold the same vector, so this is their order in the table
EmbeddedChunks == SelectSeq(document_chunks, LAMBDA c : c.embedding # NoEmbedding)

\* the chunks stored by process_bulk_documents and process_existing_files
BulkChunks ==
    {k \in 1..Len(document_chunks) :
        \E j \in 1..Len(documents) :
            /\ documents[j].id = document_chunks[k].document_id
            /\ documents[j].ingested_by \in
                   {"process_bulk_documents", "process_existing_files"}}

\* C30: every stored document and chunk holds the embedding its insert was
\* called with if that is a string in brackets, and NULL otherwise; a chunk
\* stored by process_bulk_documents or process_existing_files holds NULL
\* and is not among the rows search_similar_chunks returns
C30_StoredEmbeddings ==
    /\ \A j \in 1..Len(documents) :
          documents[j].embedding =
              IF Bracketed(documents[j].given) THEN documents[j].given ELSE NoEmbedding
    /\ \A k \in 1..Len(document_chunks) :
          document_chunks[k].embedding =
              IF Bracketed(document_chunks[k].given) THEN document_chunks[k].given
              ELSE NoEmbedding
    /\ \A k \in BulkChunks :
          /\ document_chunks[k].embedding = NoEmbedding
          /\ document_chunks[k] \notin
                 Range(search_similar_chunks(EmbeddedChunks, ChunkLimit))

\* process_bulk_documents stored a document with its embedding and a chunk
\* whose embedding the provider had returned as a list: the chunk holds NULL
C30_Witness ==
    /\ Len(documents) = 1
    /\ documents[1].ingested_by = "process_bulk_documents"
    /\ documents[1].embedding = format_vector(<<1, 2>>)
    /\ Len(document_chunks) >= 1
    /\ document_chunks[1].given = [type |-> "list", value |-> <<1, 2>>]
    /\ document_chunks[1].embedding = NoEmbedding
    /\ search_similar_chunks(EmbeddedChunks, ChunkLimit) = <<>>

====
